---------------------------- MODULE Spec2Model ----------------------------
(***************************************************************************)
(* Model of metalsmith-optimize-images: the plugin entry point            *)
(* (optimizeImages), the HTML orchestrator (processHtmlFile,              *)
(* processImage), the transcoder (processImageToVariants), the variant    *)
(* path builder and the unreferenced-image classifier.                    *)
(*                                                                         *)
(* Strings are sequences of one-character strings, so that startsWith,    *)
(* includes, replace, split and the path functions are computed as the    *)
(* JavaScript computes them.                                               *)
(***************************************************************************)
EXTENDS Integers, Sequences, FiniteSets, TLC

(***************************************************************************)
(* String primitives (the methods of String.prototype)                     *)
(***************************************************************************)

\* s.startsWith(p)
StartsWith(s, p) ==
    /\ Len(s) >= Len(p)
    /\ SubSeq(s, 1, Len(p)) = p

\* s.endsWith(p)
EndsWith(s, p) ==
    /\ Len(s) >= Len(p)
    /\ SubSeq(s, Len(s) - Len(p) + 1, Len(s)) = p

\* s.indexOf(p), 1-based; 0 when p does not occur
RECURSIVE IndexFrom(_, _, _)
\* the first position from i on at which p occurs in s; 0 when there is none
IndexFrom(s, p, i) ==
    IF i + Len(p) - 1 > Len(s) THEN 0
    ELSE IF SubSeq(s, i, i + Len(p) - 1) = p THEN i
    ELSE IndexFrom(s, p, i + 1)

IndexOf(s, p) == IndexFrom(s, p, 1)

\* s.lastIndexOf(p), 1-based; 0 when p does not occur
RECURSIVE IndexBack(_, _, _)
\* the last position up to i at which p occurs in s; 0 when there is none
IndexBack(s, p, i) ==
    IF i < 1 THEN 0
    ELSE IF SubSeq(s, i, i + Len(p) - 1) = p THEN i
    ELSE IndexBack(s, p, i - 1)

LastIndexOf(s, p) == IndexBack(s, p, Len(s) - Len(p) + 1)

\* s.includes(p)
Includes(s, p) == IndexOf(s, p) # 0

\* s.replace(p, r) with a string pattern: the first occurrence only
ReplaceAt(s, p, r, i) ==
    IF i = 0 THEN s
    ELSE SubSeq(s, 1, i - 1) \o r \o SubSeq(s, i + Len(p), Len(s))

ReplaceFirst(s, p, r) == ReplaceAt(s, p, r, IndexOf(s, p))

\* s.slice(n) (n characters dropped from the front)
SliceFrom(s, n) == SubSeq(s, n + 1, Len(s))

UpperChars == <<"A","B","C","D","E","F","G","H","I","J","K","L","M",
                "N","O","P","Q","R","S","T","U","V","W","X","Y","Z">>
LowerChars == <<"a","b","c","d","e","f","g","h","i","j","k","l","m",
                "n","o","p","q","r","s","t","u","v","w","x","y","z">>

UpperSet == {UpperChars[i] : i \in 1..Len(UpperChars)}

LowerChar(c) ==
    IF c \in UpperSet
    THEN LowerChars[CHOOSE i \in 1..Len(UpperChars) : UpperChars[i] = c]
    ELSE c

\* s.toLowerCase()
ToLowerCase(s) == [i \in 1..Len(s) |-> LowerChar(s[i])]

DigitChars == <<"0","1","2","3","4","5","6","7","8","9">>
HexChars == <<"0","1","2","3","4","5","6","7","8","9","a","b","c","d","e","f">>
DigitSet == {DigitChars[i] : i \in 1..Len(DigitChars)}
HexSet == {HexChars[i] : i \in 1..Len(HexChars)}

IsDigit(c) == c \in DigitSet
IsHexDigit(c) == LowerChar(c) \in HexSet

RECURSIVE NumToString(_)
\* String(n) for a non-negative integer
NumToString(n) ==
    IF n < 10 THEN <<DigitChars[n + 1]>>
    ELSE NumToString(n \div 10) \o <<DigitChars[(n % 10) + 1]>>

RECURSIVE SplitAt(_, _, _)
\* s.split(sep) for a one-character separator, i the first position of sep in s
SplitAt(s, sep, i) ==
    IF i = 0 THEN <<s>>
    ELSE <<SubSeq(s, 1, i - 1)>>
         \o SplitAt(SubSeq(s, i + 1, Len(s)), sep, IndexOf(SubSeq(s, i + 1, Len(s)), <<sep>>))

Split(s, sep) == SplitAt(s, sep, IndexOf(s, <<sep>>))

RECURSIVE Join(_, _)
\* parts.join(sep)
Join(parts, sep) ==
    IF Len(parts) = 0 THEN <<>>
    ELSE IF Len(parts) = 1 THEN parts[1]
    ELSE parts[1] \o sep \o Join(Tail(parts), sep)

(***************************************************************************)
(* node:path (posix): normalize, join, parse                               *)
(***************************************************************************)

RECURSIVE NormalizeSegments(_, _, _)
\* the segment walk of path.normalize: "" and "." are dropped, ".." pops
NormalizeSegments(segs, acc, isAbs) ==
    IF Len(segs) = 0 THEN acc
    ELSE LET h == Head(segs)
         IN  IF h = <<>> \/ h = <<".">> THEN NormalizeSegments(Tail(segs), acc, isAbs)
             ELSE IF h = <<".", ".">>
                  THEN IF Len(acc) > 0 /\ acc[Len(acc)] # <<".", ".">>
                       THEN NormalizeSegments(Tail(segs), SubSeq(acc, 1, Len(acc) - 1), isAbs)
                       ELSE IF isAbs THEN NormalizeSegments(Tail(segs), acc, isAbs)
                            ELSE NormalizeSegments(Tail(segs), Append(acc, h), isAbs)
                  ELSE NormalizeSegments(Tail(segs), Append(acc, h), isAbs)

\* path.normalize(p)
\* the end of path.normalize: body is the joined segments
NormalizeEnd(body, isAbs, trailing) ==
    (IF isAbs THEN <<"/">> ELSE <<>>)
    \o (IF Len(body) = 0 /\ ~isAbs THEN <<".">> ELSE body)
    \o (IF trailing /\ (Len(body) > 0 \/ ~isAbs) THEN <<"/">> ELSE <<>>)

\* path.normalize(p)
PathNormalize(p) ==
    IF Len(p) = 0 THEN <<".">>
    ELSE NormalizeEnd(Join(NormalizeSegments(Split(p, "/"), <<>>, p[1] = "/"), <<"/">>),
                      p[1] = "/", p[Len(p)] = "/")

\* path.join(a, b): the non-empty arguments joined by "/" and normalized
PathJoin(a, b) ==
    PathNormalize(IF Len(a) = 0 THEN b
                  ELSE IF Len(b) = 0 THEN a
                  ELSE a \o <<"/">> \o b)

\* path.basename(p)
PathBase(p) == SubSeq(p, LastIndexOf(p, <<"/">>) + 1, Len(p))

\* path.extname(p): from the last "." of the base name, unless it starts the name
ExtFrom(base, i) == IF i <= 1 THEN <<>> ELSE SubSeq(base, i, Len(base))
ExtOfBase(base) == ExtFrom(base, LastIndexOf(base, <<".">>))
PathExt(p) == ExtOfBase(PathBase(p))

\* path.parse(p).name
NameOfBase(base) == SubSeq(base, 1, Len(base) - Len(ExtOfBase(base)))
PathName(p) == NameOfBase(PathBase(p))

(***************************************************************************)
(* String literals of the source                                           *)
(***************************************************************************)

sOriginal == "original"

\* 'http', 'data:' and '/' (imageProcessor.js:134, 141)
sHttp == <<"h","t","t","p">>
sData == <<"d","a","t","a",":">>
sSlash == <<"/">>
sColon == ":"
sDotHtml == <<".","h","t","m","l">>

\* the tokens of the output pattern (paths.js)
tokFilename == <<"[","f","i","l","e","n","a","m","e","]">>
tokWidth == <<"[","w","i","d","t","h","]">>
tokFormat == <<"[","f","o","r","m","a","t","]">>
tokHash == <<"[","h","a","s","h","]">>
tokDashHash == <<"-","[","h","a","s","h","]">>

\* buildConfig defaults
defaultOutputDir == <<"a","s","s","e","t","s","/","i","m","a","g","e","s","/","r","e","s","p","o","n","s","i","v","e">>
defaultOutputPattern == <<"[","f","i","l","e","n","a","m","e","]","-","[","w","i","d","t","h","]","w","-","[","h","a","s","h","]",".","[","f","o","r","m","a","t","]">>
defaultHtmlPattern == <<"*","*","/","*",".","h","t","m","l">>

(***************************************************************************)
(* Bytes.  A buffer is modelled by what the codec reads from it: an image  *)
(* of a format and intrinsic size, or bytes that do not decode; id stands  *)
(* for the byte string itself (equal ids, equal bytes).                    *)
(***************************************************************************)

ImageBytes(id, fmt, w, h) ==
    [kind |-> "image", id |-> id, fmt |-> fmt, w |-> w, h |-> h, body |-> <<>>]
CorruptBytes(id) ==
    [kind |-> "corrupt", id |-> id, fmt |-> "none", w |-> 0, h |-> 0, body |-> <<>>]
\* text: the markup of a document (body: its elements) or the manifest (body: its keys)
TextBytes(id, body) ==
    [kind |-> "text", id |-> id, fmt |-> "none", w |-> 0, h |-> 0, body |-> body]

RECURSIVE HexDigits(_, _)
\* n as k hexadecimal digits
HexDigits(n, k) ==
    IF k = 0 THEN <<>>
    ELSE HexDigits(n \div 16, k - 1) \o <<HexChars[(n % 16) + 1]>>

\* generateHash(buffer): digest('hex').slice(0, 8), a function of the bytes alone
GenerateHash(buffer) == HexDigits(buffer.id, 8)

(***************************************************************************)
(* The codec (sharp), at its interface                                     *)
(***************************************************************************)

\* the encoders sharp offers (formatted = resized.clone()[format](...))
SharpFormats == {"avif", "webp", "jpeg", "png", "gif", "tiff"}

\* image.metadata() rejects for bytes that are no image
Decodes(buffer) == buffer.kind = "image"

FormatIndex(f) ==
    CASE f = "avif" -> 1 [] f = "webp" -> 2 [] f = "jpeg" -> 3
      [] f = "png" -> 4 [] f = "gif" -> 5 [] OTHER -> 6

Min(a, b) == IF a < b THEN a ELSE b

\* resize({width, withoutEnlargement}) followed by an encoder and toBuffer():
\* the aspect ratio is kept, and the image is not enlarged when asked not to
Encode(buffer, width, withoutEnlargement, fmt) ==
    LET w == IF withoutEnlargement THEN Min(width, buffer.w) ELSE width
    IN  ImageBytes((buffer.id * 1009 + FormatIndex(fmt) * 101 + width) % 1000003,
                   fmt, w, (buffer.h * w) \div buffer.w)

(***************************************************************************)
(* utils/paths.js                                                          *)
(***************************************************************************)

\* a format name as the characters written into a file name
FormatChars(f) ==
    CASE f = "avif" -> <<"a","v","i","f">>
      [] f = "webp" -> <<"w","e","b","p">>
      [] f = "jpeg" -> <<"j","p","e","g">>
      [] f = "png"  -> <<"p","n","g">>
      [] f = "gif"  -> <<"g","i","f">>
      [] f = "tiff" -> <<"t","i","f","f">>
      [] OTHER      -> <<>>

\* a path in which the format is written as given, 'original' included
generateVariantPathAsGiven(originalPath, width, format, hash, cfg) ==
    PathJoin(cfg.outputDir,
             ReplaceFirst(ReplaceFirst(ReplaceFirst(ReplaceFirst(cfg.outputPattern,
                 tokFilename, PathName(originalPath)), tokWidth, NumToString(width)),
                 tokFormat, IF format = sOriginal THEN <<"o","r","i","g","i","n","a","l">>
                            ELSE FormatChars(format)), tokHash, hash))

generateVariantPath(originalPath, width, format, hash, cfg) ==
    LET originalFormat == ToLowerCase(SliceFrom(PathExt(originalPath), 1))
        outputFormat   == IF format = sOriginal THEN originalFormat ELSE FormatChars(format)
        n1 == ReplaceFirst(cfg.outputPattern, tokFilename, PathName(originalPath))
        n2 == ReplaceFirst(n1, tokWidth, NumToString(width))
        n3 == ReplaceFirst(n2, tokFormat, outputFormat)
        n4 == ReplaceFirst(n3, tokHash, hash)
    IN  PathJoin(cfg.outputDir, n4)

(***************************************************************************)
(* processors/imageProcessor.js: processImageToVariants                    *)
(***************************************************************************)

\* one (width, format) pair: the body of the formatPromises callback.
\* NoVariant is the null the callback returns for a skipped or failed pair.
NoVariant == [path |-> <<>>, buffer |-> TextBytes(0, <<>>), width |-> 0, format |-> "none",
              originalFormat |-> "none", size |-> 0, height |-> 0]

\* the size in bytes of an encoded buffer (formatBuffer.length)
ByteLength(buffer) == buffer.w * buffer.h + 1

\* a pair that encodes 'original' for a WEBP source as for any other source
encodePairWebpToo(buffer, originalPath, width, format, cfg, fails) ==
    IF (IF format = sOriginal THEN buffer.fmt ELSE format) \notin SharpFormats
       \/ <<width, format>> \in fails
    THEN NoVariant
    ELSE [path |-> generateVariantPath(originalPath, width, format, GenerateHash(buffer), cfg),
          buffer |-> Encode(buffer, width, cfg.skipLarger,
                            IF format = sOriginal THEN buffer.fmt ELSE format),
          width |-> width,
          format |-> IF format = sOriginal THEN buffer.fmt ELSE format,
          originalFormat |-> buffer.fmt,
          size |-> ByteLength(Encode(buffer, width, cfg.skipLarger,
                                     IF format = sOriginal THEN buffer.fmt ELSE format)),
          height |-> buffer.h]

encodePair(buffer, originalPath, width, format, cfg, fails) ==
    IF format = sOriginal /\ buffer.fmt = "webp" THEN NoVariant
    ELSE LET outputPath == generateVariantPath(originalPath, width, format,
                                               GenerateHash(buffer), cfg)
             target     == IF format = sOriginal THEN buffer.fmt ELSE format
         IN  IF target \notin SharpFormats \/ <<width, format>> \in fails
             THEN NoVariant
             ELSE LET formatBuffer == Encode(buffer, width, cfg.skipLarger, target)
                  IN  [path |-> outputPath, buffer |-> formatBuffer, width |-> width,
                       format |-> target, originalFormat |-> buffer.fmt,
                       size |-> ByteLength(formatBuffer), height |-> buffer.h]

\* a transcoder that gives up a width when one of its formats fails
formatResultsAllOrNothing(buffer, originalPath, width, cfg, fails) ==
    IF \E i \in 1..Len(cfg.formats) :
          encodePair(buffer, originalPath, width, cfg.formats[i], cfg, fails) = NoVariant
    THEN <<>>
    ELSE [i \in 1..Len(cfg.formats) |->
              encodePair(buffer, originalPath, width, cfg.formats[i], cfg, fails)]

\* formatResults.filter(v => v !== null) over config.formats, in order
formatResults(buffer, originalPath, width, cfg, fails) ==
    SelectSeq([i \in 1..Len(cfg.formats) |->
                   encodePair(buffer, originalPath, width, cfg.formats[i], cfg, fails)],
              LAMBDA v : v # NoVariant)

RECURSIVE Flat(_)
\* Array.prototype.flat()
Flat(lists) == IF Len(lists) = 0 THEN <<>> ELSE Head(lists) \o Flat(Tail(lists))

\* a transcoder that takes every configured width
targetWidthsUnfiltered(buffer, cfg) == cfg.widths

\* config.skipLarger ? config.widths.filter(w => w <= metadata.width) : config.widths
targetWidths(buffer, cfg) ==
    IF cfg.skipLarger THEN SelectSeq(cfg.widths, LAMBDA w : w <= buffer.w) ELSE cfg.widths

\* resized.metadata() lies outside the try of the formats: when it rejects for a
\* width (the pair of the width and "resize" is in fails) the whole call rejects
ResizeFails(widths, fails) == \E i \in 1..Len(widths) : <<widths[i], "resize">> \in fails

\* the result of the call: threw (the promise rejects) or the variants
processImageToVariants(buffer, originalPath, cfg, fails) ==
    IF ~Decodes(buffer) THEN [threw |-> TRUE, variants |-> <<>>]
    ELSE LET tw == targetWidths(buffer, cfg)
         IN  IF Len(tw) = 0 THEN [threw |-> FALSE, variants |-> <<>>]
             ELSE IF ResizeFails(tw, fails) THEN [threw |-> TRUE, variants |-> <<>>]
             ELSE [threw |-> FALSE,
                   variants |-> Flat([i \in 1..Len(tw) |->
                       formatResults(buffer, originalPath, tw[i], cfg, fails)])]

(***************************************************************************)
(* The host: the Metalsmith files object, the accessors and the disk       *)
(***************************************************************************)

\* The files object is kept as the sequence of its entries in key order
\* (Object.keys gives string keys in insertion order).
HasFile(fs, p) == \E i \in 1..Len(fs) : fs[i].path = p
GetFile(fs, p) == fs[CHOOSE i \in 1..Len(fs) : fs[i].path = p]
\* files[p] = {contents, mtime}; mtime 0 stands for a record without mtime
PutFile(fs, p, contents, mtime) ==
    LET e == [path |-> p, contents |-> contents, mtime |-> mtime]
    IN  IF HasFile(fs, p)
        THEN [i \in 1..Len(fs) |-> IF fs[i].path = p THEN e ELSE fs[i]]
        ELSE Append(fs, e)
FileKeys(fs) == [i \in 1..Len(fs) |-> fs[i].path]

\* processedImages (a Map): entries in insertion order; set() overwrites in place
MapHas(m, k) == \E i \in 1..Len(m) : m[i].key = k
MapGet(m, k) == m[CHOOSE i \in 1..Len(m) : m[i].key = k].value
MapSet(m, k, v) ==
    IF MapHas(m, k)
    THEN [i \in 1..Len(m) |-> IF m[i].key = k THEN [key |-> k, value |-> v] ELSE m[i]]
    ELSE Append(m, [key |-> k, value |-> v])

\* metalsmith.source(), metalsmith.destination() and process.cwd()
sourceDir == <<"/","s">>
destinationDir == <<"/","b">>
cwdDir == <<"/","w">>

\* metalsmith.match(pattern, file) for the patterns of the form **/*<suffix>
Match(pattern, file) ==
    /\ StartsWith(pattern, <<"*","*","/","*">>)
    /\ EndsWith(file, SliceFrom(pattern, 4))

\* fs.existsSync(p) for a file, and the file's entry on the disk
DiskHas(disk, p) == \E i \in 1..Len(disk) : disk[i].path = p
DiskGet(disk, p) == disk[CHOOSE i \in 1..Len(disk) : disk[i].path = p]
\* fs.existsSync(dir) for a directory: it was made, or something lies under it
DirExists(disk, dir) ==
    \E i \in 1..Len(disk) : disk[i].path = dir \/ StartsWith(disk[i].path, dir \o sSlash)
\* a directory's entry on the disk
DirEntry == [kind |-> "dir", id |-> 0, fmt |-> "none", w |-> 0, h |-> 0, body |-> <<>>]
\* mkdirp.mkdirpSync(dir)
mkdirpSync(disk, dir) ==
    IF DirExists(disk, dir) THEN disk
    ELSE Append(disk, [path |-> dir, contents |-> DirEntry, mtime |-> 0])

\* done() called without an argument
NoError == [thrownBy |-> "nothing"]

(***************************************************************************)
(* processors/htmlProcessor.js: replacePictureElement                      *)
(***************************************************************************)

\* An element matched by the image selector: its src attribute (hasSrc false:
\* no src attribute), the number of <picture> elements generated around it
\* and the <picture> last generated for it.
\* $img[0].attribs: the attributes other than src, in document order
HasAttr(attribs, name) == \E i \in 1..Len(attribs) : attribs[i].name = name
\* $img.attr(name) of an attribute that is present
AttrOf(attribs, name) == attribs[CHOOSE i \in 1..Len(attribs) : attribs[i].name = name].value
\* $el.attr(name, value): overwrites in place, appends otherwise
SetAttr(attribs, name, value) ==
    IF HasAttr(attribs, name)
    THEN [i \in 1..Len(attribs) |->
            IF attribs[i].name = name THEN [name |-> name, value |-> value] ELSE attribs[i]]
    ELSE Append(attribs, [name |-> name, value |-> value])
\* $img.attr(name) || fallback: an absent or empty attribute gives the fallback
AttrOr(attribs, name, fallback) ==
    IF HasAttr(attribs, name) /\ AttrOf(attribs, name) # "" THEN AttrOf(attribs, name)
    ELSE fallback

NoImg == [src |-> <<>>, attribs |-> <<>>]
NoPicture == [sources |-> <<>>, img |-> NoImg, width |-> 0, height |-> 0]
\* no progressive wrapper stands in place of the element
NoWrapper ==
    [classes |-> <<>>, aspectRatio |-> <<0, 0>>, lowRes |-> <<>>, highRes |-> <<>>]
\* an <img> with a src and further attributes
ElemWith(src, attribs) ==
    [hasSrc |-> TRUE, src |-> src, attribs |-> attribs, pictures |-> 0, picture |-> NoPicture,
     wrappers |-> 0, wrapper |-> NoWrapper]
Elem(src) == ElemWith(src, <<>>)
ElemNoSrc ==
    [hasSrc |-> FALSE, src |-> <<>>, attribs |-> <<>>, pictures |-> 0, picture |-> NoPicture,
     wrappers |-> 0, wrapper |-> NoWrapper]

\* the variants left in the order of production
Unsorted(list) == list

RECURSIVE InsertByWidth(_, _)
InsertByWidth(sorted, v) ==
    IF Len(sorted) = 0 THEN <<v>>
    ELSE IF v.width < Head(sorted).width THEN <<v>> \o sorted
    ELSE <<Head(sorted)>> \o InsertByWidth(Tail(sorted), v)

RECURSIVE SortByWidth(_)
\* list.sort((a, b) => a.width - b.width): ascending and stable
SortByWidth(list) ==
    IF Len(list) = 0 THEN <<>>
    ELSE InsertByWidth(SortByWidth(SubSeq(list, 1, Len(list) - 1)), list[Len(list)])

\* variantsByFormat[f]
VariantsOfFormat(variants, f) == SelectSeq(variants, LAMBDA v : v.format = f)

RECURSIVE FormatKeys(_, _)
\* Object.keys(variantsByFormat): the formats in order of first appearance
FormatKeys(variants, seen) ==
    IF Len(variants) = 0 THEN seen
    ELSE IF \E i \in 1..Len(seen) : seen[i] = Head(variants).format
         THEN FormatKeys(Tail(variants), seen)
         ELSE FormatKeys(Tail(variants), Append(seen, Head(variants).format))

\* one <source>: its type, its srcset as (path, width) pairs, and its sizes
SourceElement(f, formatVariants, sizesAttr) ==
    LET sorted == SortByWidth(formatVariants)
    IN  [type |-> f,
         srcset |-> [i \in 1..Len(sorted) |->
                        [path |-> sorted[i].path, width |-> sorted[i].width]],
         sizes |-> sizesAttr]

\* the <source> elements of the configured formats, in the configured order
configuredSources(variants, cfg, sizesAttr) ==
    LET wanted == SelectSeq(cfg.formats,
                     LAMBDA f : f # sOriginal /\ Len(VariantsOfFormat(variants, f)) > 0)
    IN  [i \in 1..Len(wanted) |->
            SourceElement(wanted[i], VariantsOfFormat(variants, wanted[i]), sizesAttr)]

\* the <source> of the original format: the first key that is neither avif nor webp
originalSource(variants, sizesAttr) ==
    LET keys == SelectSeq(FormatKeys(variants, <<>>), LAMBDA f : f # "avif" /\ f # "webp")
    IN  IF Len(keys) = 0 THEN <<>>
        ELSE <<SourceElement(keys[1], VariantsOfFormat(variants, keys[1]), sizesAttr)>>

\* the variant of greatest width, the first of them in list order
largestVariant(variants) ==
    variants[CHOOSE i \in 1..Len(variants) :
                /\ \A j \in 1..Len(variants) : variants[j].width <= variants[i].width
                /\ \A j \in 1..(i - 1) : variants[j].width < variants[i].width]

\* the attributes replacePictureElement sets itself
handledAttribs == {"src", "alt", "class", "width", "height", "sizes"}

\* $newImg before the attributes of the original are copied: alt, class, loading
newImgBase(attribs, cfg) ==
    IF cfg.lazy
    THEN SetAttr(IF AttrOr(attribs, "class", "") # ""
                 THEN <<[name |-> "alt", value |-> AttrOr(attribs, "alt", "")],
                        [name |-> "class", value |-> AttrOf(attribs, "class")]>>
                 ELSE <<[name |-> "alt", value |-> AttrOr(attribs, "alt", "")]>>,
                 "loading", "lazy")
    ELSE IF AttrOr(attribs, "class", "") # ""
         THEN <<[name |-> "alt", value |-> AttrOr(attribs, "alt", "")],
                [name |-> "class", value |-> AttrOf(attribs, "class")]>>
         ELSE <<[name |-> "alt", value |-> AttrOr(attribs, "alt", "")]>>

RECURSIVE copyAttribs(_, _, _)
\* for (const attrib in $img[0].attribs) if not handled: $newImg.attr(attrib, value)
copyAttribs(newAttribs, attribs, k) ==
    IF k > Len(attribs) THEN newAttribs
    ELSE copyAttribs(IF attribs[k].name \in handledAttribs THEN newAttribs
                     ELSE SetAttr(newAttribs, attribs[k].name, attribs[k].value),
                     attribs, k + 1)

\* a fallback <img> on which the configured loading="lazy" is set last
newImgLazyWins(el, cfg) ==
    [src |-> el.src,
     attribs |-> IF cfg.lazy
                 THEN SetAttr(copyAttribs(newImgBase(el.attribs, cfg), el.attribs, 1),
                              "loading", "lazy")
                 ELSE copyAttribs(newImgBase(el.attribs, cfg), el.attribs, 1)]

\* the fallback <img> of the picture
newImg(el, cfg) ==
    [src |-> el.src, attribs |-> copyAttribs(newImgBase(el.attribs, cfg), el.attribs, 1)]

replacePictureElement(el, variants, cfg) ==
    IF Len(variants) = 0 THEN el
    ELSE [el EXCEPT
            !.pictures = @ + 1,
            !.picture = [sources |->
                            configuredSources(variants, cfg,
                                              AttrOr(el.attribs, "sizes", cfg.sizes))
                            \o originalSource(variants,
                                              AttrOr(el.attribs, "sizes", cfg.sizes)),
                         img |-> newImg(el, cfg),
                         width |-> IF cfg.dimensionAttributes
                                   THEN largestVariant(variants).width ELSE 0,
                         height |-> IF cfg.dimensionAttributes
                                    THEN largestVariant(variants).height ELSE 0]]

(***************************************************************************)
(* processors/progressiveProcessor.js: the placeholder, the wrapper and the *)
(* picture of the fallback                                                 *)
(***************************************************************************)

sPlaceholderJpg == <<"-","p","l","a","c","e","h","o","l","d","e","r",".","j","p","g">>

\* generatePlaceholder(imagePath, imageBuffer, placeholderConfig): sharp rejects
\* for bytes it cannot decode and when the host makes the encoding fail
generatePlaceholder(imagePath, imageBuffer, placeholderConfig, fails) ==
    IF ~Decodes(imageBuffer) \/ <<placeholderConfig.width, "placeholder">> \in fails
    THEN [threw |-> TRUE, data |-> NoVariant]
    ELSE [threw |-> FALSE,
          data |-> [path |-> PathJoin(defaultOutputDir, PathName(imagePath) \o sPlaceholderJpg),
                    contents |-> Encode(imageBuffer, placeholderConfig.width, FALSE, "jpeg"),
                    fileName |-> PathName(imagePath) \o sPlaceholderJpg,
                    originalWidth |-> imageBuffer.w,
                    originalHeight |-> imageBuffer.h]]

\* the variants of the first format that is neither avif nor webp
originalVariants(variants) ==
    LET keys == SelectSeq(FormatKeys(variants, <<>>), LAMBDA f : f # "avif" /\ f # "webp")
    IN  IF Len(keys) = 0 THEN <<>> ELSE VariantsOfFormat(variants, keys[1])

\* originalVariants[Math.floor(originalVariants.length / 2)]
middleVariant(list) == list[(Len(list) \div 2) + 1]

\* the aspect ratio of the wrapper: of the original, or of the largest variant
aspectRatio(list, placeholderData) ==
    IF placeholderData.originalWidth # 0 /\ placeholderData.originalHeight # 0
    THEN <<placeholderData.originalWidth, placeholderData.originalHeight>>
    ELSE <<largestVariant(list).width, largestVariant(list).height>>

\* createProgressiveWrapper($, $img, variants, placeholderData, config): the
\* element in place of the <img>, a clone of the <img> when no variant is of
\* the original format
createProgressiveWrapper(el, variants, placeholderData) ==
    IF Len(originalVariants(variants)) = 0 THEN el
    ELSE [el EXCEPT
            !.wrappers = @ + 1,
            !.wrapper =
                [classes |-> IF AttrOr(el.attribs, "class", "") # ""
                             THEN <<"responsive-wrapper", "js-progressive-image-wrapper",
                                    AttrOf(el.attribs, "class")>>
                             ELSE <<"responsive-wrapper", "js-progressive-image-wrapper">>,
                 aspectRatio |-> aspectRatio(originalVariants(variants), placeholderData),
                 lowRes |-> <<[class |-> "low-res",
                               src |-> sSlash \o placeholderData.path,
                               alt |-> AttrOr(el.attribs, "alt", "")]>>,
                 highRes |-> <<[class |-> "high-res", src |-> <<>>,
                                alt |-> AttrOr(el.attribs, "alt", ""),
                                dataSource |-> sSlash \o
                                    middleVariant(originalVariants(variants)).path]>>]]

\* the <source> elements of createStandardPicture: avif, then webp
standardSources(variants, sizesAttr) ==
    LET wanted == SelectSeq(<<"avif", "webp">>,
                            LAMBDA f : Len(VariantsOfFormat(variants, f)) > 0)
    IN  [i \in 1..Len(wanted) |->
            SourceElement(wanted[i], VariantsOfFormat(variants, wanted[i]), sizesAttr)]

\* the <img> of createStandardPicture: the original format as its srcset
standardImg(el, list, sizesAttr) ==
    IF Len(list) = 0 THEN NoImg
    ELSE [src |-> sSlash \o middleVariant(SortByWidth(list)).path,
          srcset |-> SourceElement("img", list, sizesAttr).srcset,
          attribs |-> IF AttrOr(el.attribs, "class", "") # ""
                      THEN <<[name |-> "sizes", value |-> sizesAttr],
                             [name |-> "alt", value |-> AttrOr(el.attribs, "alt", "")],
                             [name |-> "loading", value |-> "lazy"],
                             [name |-> "class", value |-> AttrOf(el.attribs, "class")]>>
                      ELSE <<[name |-> "sizes", value |-> sizesAttr],
                             [name |-> "alt", value |-> AttrOr(el.attribs, "alt", "")],
                             [name |-> "loading", value |-> "lazy"]>>]

\* createStandardPicture($, $img, variants, config) in place of the <img>
createStandardPicture(el, variants, cfg) ==
    [el EXCEPT
        !.pictures = @ + 1,
        !.picture = [sources |-> standardSources(variants,
                                                 AttrOr(el.attribs, "sizes", cfg.sizes)),
                     img |-> standardImg(el, originalVariants(variants),
                                         AttrOr(el.attribs, "sizes", cfg.sizes)),
                     width |-> IF cfg.dimensionAttributes /\ Len(variants) > 0
                                  /\ Len(originalVariants(variants)) > 0
                               THEN largestVariant(variants).width ELSE 0,
                     height |-> IF cfg.dimensionAttributes /\ Len(variants) > 0
                                   /\ Len(originalVariants(variants)) > 0
                                THEN largestVariant(variants).height ELSE 0]]

\* the value processProgressiveImage puts into the cache: one object
\* {variants, placeholderData}, which is not a list of variants
progressiveEntry(variants, placeholderData) ==
    <<[variants |-> variants, placeholderData |-> placeholderData]>>
\* the cache value is an array, so that it has a map method
IsArray(value) == ~(Len(value) = 1 /\ "placeholderData" \in DOMAIN value[1])

(***************************************************************************)
(* utils/config.js: the defaults of buildConfig                            *)
(***************************************************************************)

defaultSizes == "(max-width: 768px) 100vw, 75vw"

defaults ==
    [widths |-> <<320, 640, 960, 1280, 1920>>,
     formats |-> <<"avif", "webp", sOriginal>>,
     htmlPattern |-> defaultHtmlPattern,
     outputDir |-> defaultOutputDir,
     outputPattern |-> defaultOutputPattern,
     skipLarger |-> TRUE,
     lazy |-> TRUE,
     sizes |-> defaultSizes,
     dimensionAttributes |-> TRUE,
     concurrency |-> 5,
     generateMetadata |-> FALSE,
     isProgressive |-> FALSE,
     placeholder |-> [width |-> 50, quality |-> 30, blur |-> 10],
     formatOptions |-> [avif |-> [quality |-> 65, speed |-> 5],
                        webp |-> [quality |-> 80, lossless |-> FALSE],
                        jpeg |-> [quality |-> 85, progressive |-> TRUE],
                        png |-> [compressionLevel |-> 8, palette |-> TRUE]],
     imgSelector |-> "img:not([data-no-responsive])",
     imagePattern |-> "**/*.{jpg,jpeg,png,gif,webp,avif}",
     processUnusedImages |-> TRUE]

\* { ...target, ...source }
Spread(target, source) == source @@ target

\* a merge in which a nested group of the user replaces the default group
deepMergeShallow(target, source, depth) == source @@ target

RECURSIVE deepMerge(_, _, _)
\* deepMerge(target, source): a key of source whose value is a plain object is
\* merged into target[key] || {}, any other value replaces; depth tells how
\* many levels of plain objects the values of source hold
deepMerge(target, source, depth) ==
    IF depth = 0 THEN Spread(target, source)
    ELSE [key \in DOMAIN target \cup DOMAIN source |->
            IF key \in DOMAIN source
            THEN deepMerge(IF key \in DOMAIN target THEN target[key] ELSE <<>>,
                           source[key], depth - 1)
            ELSE target[key]]

\* options with formatOptions replaced, when the user gave them
withFormatOptions(value) ==
    IF "formatOptions" \in DOMAIN value
    THEN Spread(value, [formatOptions |->
                            deepMerge(defaults.formatOptions, value.formatOptions, 1)])
    ELSE value
\* options with placeholder replaced, when the user gave it
withPlaceholder(value) ==
    IF "placeholder" \in DOMAIN value
    THEN Spread(value, [placeholder |-> deepMerge(defaults.placeholder, value.placeholder, 0)])
    ELSE value

\* buildConfig(options): options.kind is "null", "undefined" or "object"; the
\* result is a new object
buildConfig(options) ==
    [ref |-> "config",
     value |-> IF options.kind = "object"
               THEN Spread(defaults, withPlaceholder(withFormatOptions(options.value)))
               ELSE defaults]

(***************************************************************************)
(* index.js: the unreferenced-image phase                                  *)
(***************************************************************************)

sResponsiveSlash == <<"r","e","s","p","o","n","s","i","v","e","/">>
sSlashResponsiveSlash == <<"/","r","e","s","p","o","n","s","i","v","e","/">>
sManifest == <<"r","e","s","p","o","n","s","i","v","e","-","i","m","a","g","e","s","-","m","a","n","i","f","e","s","t",".","j","s","o","n">>
sImagesSlash == <<"i","m","a","g","e","s","/">>
sAssetsImages == <<"a","s","s","e","t","s","/","i","m","a","g","e","s">>
sLibAssetsImages == <<"l","i","b","/","a","s","s","e","t","s","/","i","m","a","g","e","s">>
sSrcAssetsImages == <<"s","r","c","/","a","s","s","e","t","s","/","i","m","a","g","e","s">>
sImages == <<"i","m","a","g","e","s">>
sDSStore == <<".","D","S","_","S","t","o","r","e">>

imageExtensions ==
    <<<<".","j","p","g">>, <<".","j","p","e","g">>, <<".","p","n","g">>, <<".","g","i","f">>, <<".","w","e","b","p">>, <<".","a","v","i","f">>>>

\* imageExtensions.some(ext => name.toLowerCase().endsWith(ext))
HasImageExtension(name) ==
    LET lower == ToLowerCase(name)
    IN  \E i \in 1..Len(imageExtensions) : EndsWith(lower, imageExtensions[i])

\* s matches /-\d+w$/i
EndsDashDigitsW(s) ==
    /\ Len(s) >= 3
    /\ LowerChar(s[Len(s)]) = "w"
    /\ \E k \in 1..(Len(s) - 2) :
          /\ \A j \in (Len(s) - k)..(Len(s) - 1) : IsDigit(s[j])
          /\ s[Len(s) - k - 1] = "-"

\* s matches /-\d+w(-[a-f0-9]+)?$/i
EndsVariantStem(s) ==
    \/ EndsDashDigitsW(s)
    \/ \E k \in 1..(Len(s) - 1) :
          /\ \A j \in (Len(s) - k + 1)..Len(s) : IsHexDigit(s[j])
          /\ s[Len(s) - k] = "-"
          /\ EndsDashDigitsW(SubSeq(s, 1, Len(s) - k - 1))

variantExtensions ==
    <<<<".","a","v","i","f">>, <<".","w","e","b","p">>, <<".","j","p","g">>, <<".","j","p","e","g">>, <<".","p","n","g">>>>

\* filePath.match(/-\d+w(-[a-f0-9]+)?\.(avif|webp|jpg|jpeg|png)$/i)
MatchesVariantName(filePath) ==
    LET lower == ToLowerCase(filePath)
    IN  \E i \in 1..Len(variantExtensions) :
        /\ EndsWith(lower, variantExtensions[i])
        /\ EndsVariantStem(SubSeq(filePath, 1, Len(filePath) - Len(variantExtensions[i])))

\* processedImagePaths: the part of each cache key before the first ':'
processedImagePaths(cache) == {Split(cache[i].key, sColon)[1] : i \in 1..Len(cache)}

\* the test of scanDirectory for one file of the disk, rel its path relative to
\* the directory scanned
scanKeeps(fullPath, rel, cfg, processed) ==
    /\ PathBase(fullPath) # sDSStore
    /\ HasImageExtension(PathBase(fullPath))
    /\ ~StartsWith(rel, sResponsiveSlash)
    /\ ~Includes(rel, sSlashResponsiveSlash)
    /\ ~Includes(fullPath, cfg.outputDir)
    /\ PathJoin(sAssetsImages, rel) \notin processed

\* what scanDirectory pushes for the files it keeps
scanPushes(kept, dir) ==
    [i \in 1..Len(kept) |->
        [path |-> SliceFrom(kept[i].path, Len(dir) + 1), buffer |-> kept[i].contents]]

\* the image files found by scanDirectory(dir), in the order the disk lists them
scanDirectory(dsk, dir, cfg, processed) ==
    scanPushes(SelectSeq(dsk, LAMBDA e :
                   /\ e.contents.kind # "dir"
                   /\ StartsWith(e.path, dir \o sSlash)
                   /\ scanKeeps(e.path, SliceFrom(e.path, Len(dir) + 1), cfg, processed)),
               dir)

\* sourceImagesDir and, after it, the alternative directories in the order tried
altBases == <<sourceDir, sourceDir, sourceDir, destinationDir, cwdDir, cwdDir>>
altNames == <<sLibAssetsImages, sAssetsImages, sImages, sAssetsImages, sLibAssetsImages,
              sSrcAssetsImages>>
altPaths == [i \in 1..Len(altBases) |-> PathJoin(altBases[i], altNames[i])]

\* the scan of the first directory that exists
scanFirst(existing, dsk, cfg, processed) ==
    IF Len(existing) = 0 THEN <<>>
    ELSE scanDirectory(dsk, existing[1], cfg, processed)

\* Method 1: the scan of the disk
filesystemImages(dsk, cfg, processed) ==
    scanFirst(SelectSeq(altPaths, LAMBDA d : DirExists(dsk, d)), dsk, cfg, processed)

\* Method 2, the test of one key of the files object against what was found so far
filesObjectCandidate(filePath, cfg, processed, found) ==
    /\ HasImageExtension(filePath)
    /\ ~StartsWith(filePath, cfg.outputDir \o sSlash)
    /\ ~Includes(filePath, sSlashResponsiveSlash)
    /\ ~Includes(filePath, sManifest)
    /\ ~MatchesVariantName(filePath)
    /\ filePath \notin processed
    /\ ~(/\ StartsWith(filePath, sImagesSlash)
         /\ \E i \in 1..Len(found) :
               found[i].path = ReplaceFirst(filePath, sImagesSlash, <<>>))

RECURSIVE filesObjectImages(_, _, _, _, _)
\* Object.keys(files).forEach(...): from key k on, pushing onto found
filesObjectImages(fs, k, cfg, processed, found) ==
    IF k > Len(fs) THEN found
    ELSE IF filesObjectCandidate(fs[k].path, cfg, processed, found)
         THEN filesObjectImages(fs, k + 1, cfg, processed,
                  Append(found, [path |-> fs[k].path, buffer |-> fs[k].contents]))
         ELSE filesObjectImages(fs, k + 1, cfg, processed, found)

findUnprocessedImages(fs, dsk, cfg, processed) ==
    filesObjectImages(fs, 1, cfg, processed, filesystemImages(dsk, cfg, processed))

\* Math.round(n / 2) for n >= 0
RoundHalf(n) == (n + 1) \div 2

generateBackgroundVariantPath(originalPath, width, format, cfg) ==
    LET originalFormat == ToLowerCase(SliceFrom(PathExt(originalPath), 1))
        outputFormat   == IF format = sOriginal THEN originalFormat ELSE FormatChars(format)
        n1 == ReplaceFirst(cfg.outputPattern, tokFilename, PathName(originalPath))
        n2 == ReplaceFirst(n1, tokWidth, NumToString(width))
        n3 == ReplaceFirst(n2, tokFormat, outputFormat)
        n4 == ReplaceFirst(n3, tokDashHash, <<>>)
        n5 == ReplaceFirst(n4, tokHash, <<>>)
    IN  PathJoin(cfg.outputDir, n5)

\* one (size, format) pair of processBackgroundImageVariants
backgroundPair(buffer, originalPath, width, density, format, cfg, fails) ==
    IF format = sOriginal /\ buffer.fmt = "webp" THEN NoVariant
    ELSE LET outputFormat == IF format = sOriginal THEN buffer.fmt ELSE format
         IN  IF outputFormat \notin SharpFormats \/ <<width, format>> \in fails
             THEN NoVariant
             ELSE LET outputBuffer == Encode(buffer, width, TRUE,
                                             IF outputFormat \in {"avif", "webp", "jpeg", "png"}
                                             THEN outputFormat ELSE buffer.fmt)
                  IN  [path |-> generateBackgroundVariantPath(originalPath, width,
                                                              outputFormat, cfg),
                       buffer |-> outputBuffer, width |-> buffer.w, height |-> buffer.h,
                       format |-> outputFormat, density |-> density]

backgroundSize(buffer, originalPath, width, density, cfg, fails) ==
    SelectSeq([i \in 1..Len(cfg.formats) |->
                   backgroundPair(buffer, originalPath, width, density,
                                  cfg.formats[i], cfg, fails)],
              LAMBDA v : v # NoVariant)

processBackgroundImageVariants(buffer, originalPath, cfg, fails) ==
    IF ~Decodes(buffer) THEN [threw |-> TRUE, variants |-> <<>>]
    ELSE IF ResizeFails(<<buffer.w, RoundHalf(buffer.w)>>, fails)
    THEN [threw |-> TRUE, variants |-> <<>>]
    ELSE [threw |-> FALSE,
          variants |-> backgroundSize(buffer, originalPath, buffer.w, "1x", cfg, fails)
                       \o backgroundSize(buffer, originalPath, RoundHalf(buffer.w), "2x",
                                         cfg, fails)]

(***************************************************************************)
(* processors/htmlProcessor.js: the document and the manifest              *)
(***************************************************************************)

\* cheerio.load(contents): the elements the image selector matches, in document order
Parse(contents) == IF contents.kind = "text" THEN contents.body ELSE <<>>
\* Buffer.from($.html()): the markup as the parser writes it back (id 1), which
\* differs from markup as authored (id 0) even when no element was changed
Serialise(elems) == TextBytes(1, elems)

\* injectProgressiveAssets($) and Buffer.from($.html()): in progressive mode a
\* page with a wrapper gets the style and the script (id 3)
Markup(elems, cfg) ==
    IF cfg.isProgressive /\ \E i \in 1..Len(elems) : elems[i].wrappers > 0
    THEN TextBytes(3, elems)
    ELSE Serialise(elems)

\* one variant as the manifest lists it
manifestVariant(v) ==
    [path |-> v.path, width |-> v.width, height |-> v.height, format |-> v.format,
     size |-> IF "size" \in DOMAIN v THEN v.size ELSE 0]

RECURSIVE metadataObj(_, _, _)
\* processedImages.forEach((variants, key) => metadataObj[path] = variants.map(...))
metadataObj(cache, k, obj) ==
    IF k > Len(cache) THEN obj
    ELSE metadataObj(cache, k + 1,
            MapSet(obj, Split(cache[k].key, sColon)[1],
                   [i \in 1..Len(cache[k].value) |-> manifestVariant(cache[k].value[i])]))

\* variants.map is not a function: a cache value that is no array
metadataThrows(cache) == \E k \in 1..Len(cache) : ~IsArray(cache[k].value)

\* the files object after generateMetadata
generateMetadata(cache, fs, cfg) ==
    PutFile(fs, PathJoin(cfg.outputDir, sManifest), TextBytes(2, metadataObj(cache, 1, <<>>)), 0)

(***************************************************************************)
(* processors/imageProcessor.js: processImage up to its first await        *)
(***************************************************************************)

\* the outcome of the synchronous part: "skip" (return), "cached" (the cache
\* holds the key) or "transcode" (processImageToVariants is called on buffer);
\* files is the files object as the disk fallback leaves it
skipImage(fs, normalizedSrc) ==
    [kind |-> "skip", files |-> fs, src |-> normalizedSrc, key |-> <<>>,
     variants |-> <<>>, buffer |-> DirEntry]

\* a cache check that never finds the key
checkCacheNever(normalizedSrc, fs, contents, cacheKey, cache) ==
    [kind |-> "transcode", files |-> fs, src |-> normalizedSrc, key |-> cacheKey,
     variants |-> <<>>, buffer |-> contents]

\* the cache check
checkCache(normalizedSrc, fs, contents, cacheKey, cache) ==
    IF MapHas(cache, cacheKey)
    THEN [kind |-> "cached", files |-> fs, src |-> normalizedSrc, key |-> cacheKey,
          variants |-> MapGet(cache, cacheKey), buffer |-> contents]
    ELSE [kind |-> "transcode", files |-> fs, src |-> normalizedSrc, key |-> cacheKey,
          variants |-> <<>>, buffer |-> contents]

\* fileMtime = files[normalizedSrc].mtime || Date.now() and the cache key
keyImage(normalizedSrc, fs, entry, cache, t) ==
    checkCache(normalizedSrc, fs, entry.contents,
               normalizedSrc \o <<sColon>>
                   \o NumToString(IF entry.mtime # 0 THEN entry.mtime ELSE t),
               cache)

\* a fallback that processes the file of the build directory without
\* recording it in the files object
loadFromBuildUnrecorded(normalizedSrc, imagePath, fs, dsk, cache, t) ==
    IF ~DiskHas(dsk, imagePath) THEN skipImage(fs, normalizedSrc)
    ELSE IF DiskGet(dsk, imagePath).contents.kind = "dir" THEN skipImage(fs, normalizedSrc)
    ELSE keyImage(normalizedSrc, fs, DiskGet(dsk, imagePath), cache, t)

\* the fallback to the build directory: existsSync is false, or readFileSync
\* throws for a directory (caught), or the file is added with its mtime
loadFromBuild(normalizedSrc, imagePath, fs, dsk, cache, t) ==
    IF ~DirExists(dsk, imagePath) THEN skipImage(fs, normalizedSrc)
    ELSE IF ~DiskHas(dsk, imagePath) \/ DiskGet(dsk, imagePath).contents.kind = "dir"
    THEN skipImage(fs, normalizedSrc)
    ELSE keyImage(normalizedSrc,
                  PutFile(fs, normalizedSrc, DiskGet(dsk, imagePath).contents,
                          DiskGet(dsk, imagePath).mtime),
                  DiskGet(dsk, imagePath), cache, t)

locateImage(normalizedSrc, fs, dsk, cache, t) ==
    IF HasFile(fs, normalizedSrc)
    THEN keyImage(normalizedSrc, fs, GetFile(fs, normalizedSrc), cache, t)
    ELSE loadFromBuild(normalizedSrc, PathJoin(destinationDir, normalizedSrc), fs, dsk,
                       cache, t)

processImageStart(el, fs, dsk, cache, t) ==
    IF ~el.hasSrc \/ Len(el.src) = 0 \/ StartsWith(el.src, sHttp) \/ StartsWith(el.src, sData)
    THEN skipImage(fs, el.src)
    ELSE locateImage(IF StartsWith(el.src, sSlash) THEN SliceFrom(el.src, 1) ELSE el.src,
                     fs, dsk, cache, t)

RECURSIVE saveVariants(_, _)
\* variants.forEach(variant => files[variant.path] = {contents: variant.buffer})
saveVariants(fs, variants) ==
    IF Len(variants) = 0 THEN fs
    ELSE saveVariants(PutFile(fs, Head(variants).path, Head(variants).buffer, 0),
                      Tail(variants))

\* the outputs written in a phase for the source image origin
Outputs(variants, origin, phase) ==
    {[path |-> variants[i].path, origin |-> origin, phase |-> phase] :
        i \in 1..Len(variants)}

(***************************************************************************)
(* index.js: optimizeImages                                                *)
(***************************************************************************)

\* htmlFiles.slice(i, j) for 0 <= i
Slice(list, i, j) == SubSeq(list, i + 1, Min(j, Len(list)))

RECURSIVE chunkLoop(_, _, _, _, _)
\* for (let i = 0; i < list.length; i += c) chunks.push(list.slice(i, i + c)).
\* With c >= 1 the loop ends within list.length iterations; when it has not
\* ended after that many (left = 0), i has not advanced and it never ends.
chunkLoop(list, c, i, acc, left) ==
    IF ~(i < Len(list)) THEN [ended |-> TRUE, chunks |-> acc]
    ELSE IF left = 0 THEN [ended |-> FALSE, chunks |-> acc]
    ELSE chunkLoop(list, c, i + c, Append(acc, Slice(list, i, i + c)), left - 1)

\* Object.keys(files).filter(...): the documents of the build
htmlFilesOf(fs, cfg) ==
    SelectSeq(FileKeys(fs), LAMBDA f : Match(cfg.htmlPattern, f) /\ EndsWith(f, sDotHtml))

\* the error an accessor of the host throws
ErrorOf(accessor) == [thrownBy |-> accessor]

(***************************************************************************)
(* The state of a build                                                    *)
(***************************************************************************)

VARIABLES
    config,           \* the options after buildConfig
    env,              \* the host: the accessor that throws, the (width, format)
                      \* pairs the codec fails on, how often the plugin is used
    files,            \* the Metalsmith files object
    disk,             \* the file system
    now,              \* Date.now()
    pc,               \* where optimizeImages stands
    pass,             \* the number of invocations so far
    htmlFiles,        \* the documents selected by this invocation
    chunks,           \* the chunks of htmlFiles
    docs,             \* per document: its parsed elements and its image tasks
    processedImages,  \* the cache of this invocation
    bgImages,         \* allBackgroundImages
    bgIndex,          \* the position of the loop over bgImages
    doneCalls,        \* how often this invocation has called done
    doneArg,          \* the argument of the last call of done
    raised,           \* what was thrown to the top level in this invocation
    transcodes,       \* history: the calls of the transcoders, in call order
    cacheSets,        \* history: the keys given to processedImages.set, with the phase
    generated,        \* history: the outputs written, each with the path of the
                      \* image it was made from, over all invocations
    call              \* a function of the plugin called on its own, as the unit
                      \* tests call it: its name, its arguments and what it returned

vars == <<config, env, files, disk, now, pc, pass, htmlFiles, chunks, docs,
          processedImages, bgImages, bgIndex, doneCalls, doneArg, raised,
          transcodes, cacheSets, generated, call>>

\* no function is called on its own
NoCall == [fn |-> "none", st |-> "none"]

\* the processing of one image of a document: st is "new", "inflight" (the
\* transcoder was called and has not settled) or "done"; outcome tells how
\* processImage went ("skipped", "cached", "rejected", "resolved") and variants
\* is what the transcoder or the cache gave
NewTask == [st |-> "new", src |-> <<>>, key |-> <<>>, buffer |-> DirEntry,
            outcome |-> "none", variants |-> <<>>]

\* the document whose synchronous part runs next, 0 when all have run
CurDoc ==
    IF \E d \in 1..Len(docs) :
          docs[d].st = "unparsed" \/ (docs[d].st = "open" /\ docs[d].cursor <= Len(docs[d].elems))
    THEN CHOOSE d \in 1..Len(docs) :
          /\ docs[d].st = "unparsed" \/ (docs[d].st = "open" /\ docs[d].cursor <= Len(docs[d].elems))
          /\ \A e \in 1..(d - 1) :
                ~(docs[e].st = "unparsed"
                  \/ (docs[e].st = "open" /\ docs[e].cursor <= Len(docs[e].elems)))
    ELSE 0

\* all image promises of the document are settled
AllSettled(doc) == \A i \in 1..Len(doc.tasks) : doc.tasks[i].st = "done"
\* a document that is written back without awaiting its images
ReadyUnawaited(d) == docs[d].st = "open" /\ docs[d].cursor > Len(docs[d].elems)
\* a document whose Promise.all has resolved and whose markup is not yet written back
ReadyToSerialise(d) == docs[d].st = "open" /\ AllSettled(docs[d])

\* a catch block that reports completion and drops the error
CatchDropsError(err) ==
    /\ pc' = "done"
    /\ doneCalls' = doneCalls + 1
    /\ doneArg' = NoError

\* the catch block of optimizeImages: done(err)
Catch(err) ==
    /\ pc' = "done"
    /\ doneCalls' = doneCalls + 1
    /\ doneArg' = err

\* done()
Done ==
    /\ pc' = "done"
    /\ doneCalls' = doneCalls + 1
    /\ doneArg' = NoError

(***************************************************************************)
(* The builds checked: sites, disks, options and hosts                     *)
(***************************************************************************)

MaxClock == 2
MaxImgs == 2
MaxConcurrency == 2
MaxUses == 2

pageA == <<"a",".","h","t","m","l">>
pageB == <<"b",".","h","t","m","l">>
pathT == <<"i","m","a","g","e","s","/","t",".","j","p","g">>
pathU == <<"i","m","a","g","e","s","/","u",".","p","n","g">>
pathC == <<"i","m","a","g","e","s","/","c",".","j","p","g">>
pathS == <<"i","m","a","g","e","s","/","s",".","g","i","f">>
pathG == <<"i","m","a","g","e","s","/","g",".","g","i","f">>
srcSlashT == <<"/","i","m","a","g","e","s","/","t",".","j","p","g">>
srcSlashD == <<"/","i","m","a","g","e","s","/","d",".","j","p","g">>
srcMissing == <<"i","m","a","g","e","s","/","m",".","j","p","g">>
srcImages == <<"i","m","a","g","e","s">>
srcHttps == <<"h","t","t","p","s",":","/","/","e","/","x",".","j","p","g">>
srcHttp == <<"h","t","t","p",":","/","/","e","/","x",".","j","p","g">>
srcProtocolRelative == <<"/","/","e","/","x",".","j","p","g">>
srcDataUrl == <<"d","a","t","a",":","x">>
diskD == <<"/","b","/","i","m","a","g","e","s","/","d",".","j","p","g">>
diskX == <<"/","b","/","e","/","x",".","j","p","g">>

bytesT == ImageBytes(1, "jpeg", 200, 100)
bytesU == ImageBytes(2, "png", 400, 200)
bytesC == CorruptBytes(3)
bytesS == ImageBytes(4, "gif", 50, 50)
bytesG == ImageBytes(7, "gif", 200, 100)
bytesD == ImageBytes(5, "jpeg", 200, 100)
bytesX == ImageBytes(6, "jpeg", 200, 100)

File(p, contents, mtime) == [path |-> p, contents |-> contents, mtime |-> mtime]

\* the images of the site; Metalsmith's records carry no mtime unless a plugin adds one
siteImages ==
    <<File(pathT, bytesT, 0), File(pathU, bytesU, 7), File(pathC, bytesC, 0),
      File(pathS, bytesS, 0)>>

\* a build directory into which another plugin has copied images
copiedDisk == <<File(diskD, bytesD, 9), File(diskX, bytesX, 9)>>

\* the element lists of at most n images with sources from srcs
DocSeqs(srcs, n) == UNION {[1..k -> srcs] : k \in 0..n}

\* the files object of a site with the given pages (a list of element lists)
Site(pages, images) ==
    [k \in 1..Len(pages) |->
        File(IF k = 1 THEN pageA ELSE pageB, TextBytes(0, pages[k]), 0)] \o images

Host(throws, fails, uses) == [throws |-> throws, fails |-> fails, uses |-> uses]

baseConfig == [defaults EXCEPT !.widths = <<100, 300>>, !.formats = <<"webp", sOriginal>>]

\* the life cycle: pages over the site's images, every concurrency from 0
lifeSources == {Elem(pathT), Elem(pathC)}
lifePages ==
    {<<>>} \cup {<<a>> : a \in DocSeqs(lifeSources, MaxImgs)}
           \cup {<<a, b>> : a \in DocSeqs(lifeSources, MaxImgs), b \in DocSeqs(lifeSources, 1)}
\* every kind of src attribute
allSources ==
    {Elem(pathT), Elem(pathU), Elem(pathS), Elem(srcSlashT), Elem(srcSlashD),
     Elem(srcMissing), Elem(srcHttps), Elem(srcHttp), Elem(srcProtocolRelative),
     Elem(srcDataUrl), Elem(<<>>), ElemNoSrc}

\* the plugin before its first invocation, for a configuration, a host, a
\* file set and a disk
Idle(cfg, host, fs, dsk) ==
    /\ config = cfg
    /\ env = host
    /\ files = fs
    /\ disk = dsk
    /\ now = 1
    /\ pc = "idle"
    /\ pass = 0
    /\ htmlFiles = <<>>
    /\ chunks = <<>>
    /\ docs = <<>>
    /\ processedImages = <<>>
    /\ bgImages = <<>>
    /\ bgIndex = 0
    /\ doneCalls = 0
    /\ doneArg = NoError
    /\ raised = NoError
    /\ transcodes = <<>>
    /\ cacheSets = <<>>
    /\ generated = {}

\* the state before the first invocation
Start(cfg, host, fs, dsk) ==
    /\ Idle(cfg, host, fs, dsk)
    /\ call = NoCall

InitLife ==
    \E c \in 0..MaxConcurrency, u \in BOOLEAN, m \in BOOLEAN, pages \in lifePages :
        Start([baseConfig EXCEPT !.concurrency = c, !.processUnusedImages = u,
                                 !.generateMetadata = m],
              Host("none", {}, 1), Site(pages, siteImages), <<>>)

\* a host whose accessor throws
InitThrow ==
    \E t \in {"destination", "source"}, u \in BOOLEAN, pages \in {<<>>, <<<<Elem(pathT)>>>>} :
        Start([baseConfig EXCEPT !.processUnusedImages = u],
              Host(t, {}, 1), Site(pages, siteImages), <<>>)

\* a page with one image of any kind, alone or beside an image of the site
sourcePages ==
    {<<x>> : x \in allSources} \cup {<<x, Elem(pathT)>> : x \in allSources}
                               \cup {<<Elem(pathT), x>> : x \in allSources}
InitSource ==
    \E a \in sourcePages :
        Start(baseConfig, Host("none", {}, 1), Site(<<a>>, siteImages), copiedDisk)

\* the transcoder: the width list, the upscale policy and the failures of the codec
failureChoices ==
    {{}, {<<100, "webp">>}, {<<100, sOriginal>>}, {<<100, "webp">>, <<100, sOriginal>>},
     {<<300, "webp">>}, {<<100, "resize">>}}
InitTranscode ==
    \E w \in {<<>>, <<100, 300, 500>>}, l \in BOOLEAN, f \in failureChoices,
       a \in {<<Elem(pathT)>>, <<Elem(pathU)>>, <<Elem(pathT), Elem(pathS)>>} :
        Start([baseConfig EXCEPT !.widths = w, !.skipLarger = l],
              Host("none", f, 1), Site(<<a>>, siteImages), <<>>)

\* the classifier: output directories as users write them, images under the
\* source directory on the disk, and the plugin used more than once
outTrailingSlash == <<"o","u","t","/">>
sourceDisk == <<File(<<"/","s","/","i","m","a","g","e","s","/","t",".","j","p","g">>, bytesT, 3)>>
classifierImages == <<File(pathT, bytesT, 0), File(pathG, bytesG, 0)>>
InitClassify ==
    \E o \in {defaultOutputDir, outTrailingSlash},
       f \in {<<"webp", sOriginal>>, <<sOriginal>>},
       dsk \in {<<>>, sourceDisk},
       a \in {<<>>, <<Elem(pathT)>>, <<Elem(pathG)>>},
       n \in 1..MaxUses :
        Start([baseConfig EXCEPT !.widths = <<100>>, !.formats = f, !.outputDir = o],
              Host("none", {}, n), Site(<<a>>, classifierImages), dsk)

\* progressive mode: the placeholder may fail, 'original' may be left out of
\* the formats, the manifest may be asked for
InitProgressive ==
    \E m \in BOOLEAN, u \in BOOLEAN, f \in {<<"webp", sOriginal>>, <<"webp">>},
       p \in {{}, {<<50, "placeholder">>}},
       a \in {<<>>, <<ElemWith(pathT, <<[name |-> "class", value |-> "hero"]>>)>>,
              <<Elem(pathT), Elem(pathU)>>, <<Elem(pathC)>>} :
        Start([baseConfig EXCEPT !.isProgressive = TRUE, !.generateMetadata = m,
                                 !.processUnusedImages = u, !.formats = f],
              Host("none", p, 1), Site(<<a>>, siteImages), <<>>)

outDir == <<"o","u","t">>

\* two images with the same file name in different directories, referenced by
\* the page or not, in both modes and with the output directory configured
pathV == <<"p","h","o","t","o","s","/","t",".","j","p","g">>
bytesV == ImageBytes(8, "jpeg", 200, 100)
sameNameImages == <<File(pathT, bytesT, 0), File(pathV, bytesV, 0)>>
InitSameName ==
    \E f \in {<<"webp">>, <<"webp", sOriginal>>}, g \in BOOLEAN,
       o \in {defaultOutputDir, outDir},
       a \in {<<>>, <<Elem(pathT)>>, <<Elem(pathT), Elem(pathV)>>} :
        Start([baseConfig EXCEPT !.widths = <<100>>, !.formats = f, !.isProgressive = g,
                                 !.outputDir = o],
              Host("none", {}, 1), Site(<<a>>, sameNameImages), <<>>)

\* an image of the source directory that the scan of the disk and the scan
\* of the file set both meet, in the directory scanned first and in another
nameT == <<"t",".","j","p","g">>
InitBothScans ==
    \E l \in {sLibAssetsImages, sAssetsImages}, a \in {<<>>, <<Elem(pathU)>>} :
        Start([baseConfig EXCEPT !.widths = <<100>>],
              Host("none", {}, 1),
              Site(<<a>>, <<File(PathJoin(l, nameT), bytesT, 0), File(pathU, bytesU, 7)>>),
              <<File(PathJoin(PathJoin(sourceDir, l), nameT), bytesT, 3)>>)

Init ==
    \/ InitBothScans
    \/ InitLife
    \/ InitThrow
    \/ InitSource
    \/ InitTranscode
    \/ InitClassify
    \/ InitProgressive
    \/ InitSameName

(***************************************************************************)
(* The steps of optimizeImages.  The synchronous run from the invocation   *)
(* to the first suspension is Invoke, ChunkHtmlFiles and then StartDoc and *)
(* StartImage for every document and image in order; nothing else can run  *)
(* between them.                                                           *)
(***************************************************************************)

\* optimizeImages(files, metalsmith, done), to the cache's construction
Invoke ==
    /\ pc \in {"idle", "done"}
    /\ pass < env.uses
    /\ pass' = pass + 1
    /\ processedImages' = <<>>
    /\ chunks' = <<>>
    /\ docs' = <<>>
    /\ bgImages' = <<>>
    /\ bgIndex' = 0
    /\ transcodes' = <<>>
    /\ cacheSets' = <<>>
    /\ IF env.throws = "destination"
       THEN /\ raised' = ErrorOf("destination")
            /\ Catch(ErrorOf("destination"))
            /\ htmlFiles' = <<>>
            /\ UNCHANGED disk
       ELSE /\ raised' = NoError
            /\ disk' = mkdirpSync(disk, PathJoin(destinationDir, config.outputDir))
            /\ htmlFiles' = htmlFilesOf(files, config)
            /\ IF Len(htmlFilesOf(files, config)) = 0
               THEN Done
               ELSE /\ pc' = "chunking"
                    /\ UNCHANGED <<doneCalls, doneArg>>
    /\ UNCHANGED <<call, config, env, files, now, generated>>

\* the documents in the order chunks.map(...) starts them
newDocs(order) ==
    [d \in 1..Len(order) |->
        [file |-> order[d], st |-> "unparsed", parsed |-> <<>>, elems |-> <<>>,
         tasks |-> <<>>, cursor |-> 0]]

\* what follows the chunk loop with the result r
afterChunkLoop(r) ==
    IF r.ended
    THEN /\ chunks' = r.chunks
         /\ docs' = newDocs(Flat(r.chunks))
         /\ pc' = "starting"
    ELSE /\ pc' = "hung"
         /\ UNCHANGED <<chunks, docs>>

\* the chunk loop and chunks.map(...) up to the first document
ChunkHtmlFiles ==
    /\ pc = "chunking"
    /\ afterChunkLoop(chunkLoop(htmlFiles, config.concurrency, 0, <<>>, Len(htmlFiles)))
    /\ UNCHANGED <<call, raised, config, env, files, disk, now, pass, htmlFiles, processedImages,
                   bgImages, bgIndex, doneCalls, doneArg, transcodes, cacheSets, generated>>

\* pc after a step of the synchronous run that leaves the documents as ds
AfterStart(ds) ==
    IF \E d \in 1..Len(ds) :
          ds[d].st = "unparsed" \/ (ds[d].st = "open" /\ ds[d].cursor <= Len(ds[d].elems))
    THEN "starting" ELSE "awaiting"

\* document d with the images the selector finds
openDoc(d, images) ==
    IF Len(images) = 0
    THEN [docs EXCEPT ![d].st = "returned"]
    ELSE [docs EXCEPT ![d].st = "open", ![d].parsed = images, ![d].elems = images,
                      ![d].tasks = [i \in 1..Len(images) |-> NewTask], ![d].cursor = 1]

\* processHtmlFile, to the image chunks
StartDoc ==
    /\ pc = "starting"
    /\ CurDoc # 0
    /\ docs[CurDoc].st = "unparsed"
    /\ docs' = openDoc(CurDoc, Parse(GetFile(files, docs[CurDoc].file).contents))
    /\ pc' = AfterStart(docs')
    /\ UNCHANGED <<call, raised, config, env, files, disk, now, pass, htmlFiles, chunks, processedImages,
                   bgImages, bgIndex, doneCalls, doneArg, transcodes, cacheSets, generated>>

\* the task of an image after the synchronous part of processImage gave r
startedTask(r) ==
    [st |-> IF r.kind = "transcode" THEN "inflight" ELSE "done",
     src |-> r.src, key |-> r.key, buffer |-> r.buffer,
     outcome |-> IF r.kind = "transcode" THEN "none"
                 ELSE IF r.kind = "cached" THEN "cached" ELSE "skipped",
     variants |-> r.variants]

\* the cache holds the key: replacePictureElement with the cached variants, or
\* createProgressiveWrapper with the cached variants and placeholder
rewriteCached(el, value, cfg) ==
    IF ~cfg.isProgressive THEN replacePictureElement(el, value, cfg)
    ELSE IF IsArray(value) THEN el
    ELSE createProgressiveWrapper(el, value[1].variants, value[1].placeholderData)

\* image i of document d after the synchronous part of processImage gave r
imageStarted(d, i, r) ==
    /\ docs' = [docs EXCEPT
                  ![d].cursor = i + 1,
                  ![d].elems[i] = IF r.kind = "cached"
                                  THEN rewriteCached(@, r.variants, config)
                                  ELSE @,
                  ![d].tasks[i] = startedTask(r)]
    /\ files' = r.files
    /\ transcodes' = IF r.kind = "transcode"
                     THEN Append(transcodes, [path |-> r.src, phase |-> "html"])
                     ELSE transcodes
    /\ pc' = AfterStart(docs')

\* processImage for the next image of the document, to its first await
StartImage ==
    /\ pc = "starting"
    /\ CurDoc # 0
    /\ docs[CurDoc].st = "open"
    /\ imageStarted(CurDoc, docs[CurDoc].cursor,
                    processImageStart(docs[CurDoc].elems[docs[CurDoc].cursor], files, disk,
                                      processedImages, now))
    /\ UNCHANGED <<call, raised, config, env, disk, now, pass, htmlFiles, chunks, processedImages,
                   bgImages, bgIndex, doneCalls, doneArg, cacheSets, generated>>

\* processImage after its await when the transcoder resolved with variants:
\* the variants are saved, the cache is populated, the element is rewritten
ImageResolved(d, i, variants) ==
    /\ files' = saveVariants(files, variants)
    /\ processedImages' = MapSet(processedImages, docs[d].tasks[i].key, variants)
    /\ cacheSets' = Append(cacheSets, [key |-> docs[d].tasks[i].key, phase |-> "html"])
    /\ generated' = generated \cup Outputs(variants, docs[d].tasks[i].src, "html")
    /\ docs' = [docs EXCEPT
                  ![d].tasks[i].st = "done",
                  ![d].tasks[i].outcome = "resolved",
                  ![d].tasks[i].variants = variants,
                  ![d].elems[i] = replacePictureElement(@, variants, config)]
    /\ UNCHANGED <<pc, doneCalls, doneArg, transcodes>>

\* processImage after its await when the transcoder rejected: the catch block
ImageRejected(d, i) ==
    /\ docs' = [docs EXCEPT ![d].tasks[i].st = "done", ![d].tasks[i].outcome = "rejected"]
    /\ UNCHANGED <<files, processedImages, cacheSets, generated, pc, doneCalls, doneArg,
                   transcodes>>

\* the continuation of processImage for the result r of the transcoder
imageSettled(d, i, r) ==
    IF r.threw THEN ImageRejected(d, i) ELSE ImageResolved(d, i, r.variants)

\* processProgressiveImage after its awaits: variants and placeholder are there
ProgressiveResolved(d, i, variants, placeholderData) ==
    /\ files' = PutFile(saveVariants(files, variants), placeholderData.path,
                        placeholderData.contents, 0)
    /\ processedImages' = MapSet(processedImages, docs[d].tasks[i].key,
                                 progressiveEntry(variants, placeholderData))
    /\ cacheSets' = Append(cacheSets, [key |-> docs[d].tasks[i].key, phase |-> "html"])
    /\ generated' = generated \cup Outputs(variants, docs[d].tasks[i].src, "html")
                       \cup {[path |-> placeholderData.path, origin |-> docs[d].tasks[i].src,
                              phase |-> "html"]}
    /\ docs' = [docs EXCEPT
                  ![d].tasks[i].st = "done",
                  ![d].tasks[i].outcome = "wrapped",
                  ![d].tasks[i].variants = variants,
                  ![d].elems[i] = createProgressiveWrapper(@, variants, placeholderData)]
    /\ UNCHANGED <<pc, doneCalls, doneArg, transcodes>>

\* processProgressiveImage: catch, when the transcoder of the fallback resolves
ProgressiveFallback(d, i, variants) ==
    /\ files' = saveVariants(files, variants)
    /\ generated' = generated \cup Outputs(variants, docs[d].tasks[i].src, "html")
    /\ transcodes' = Append(transcodes, [path |-> docs[d].tasks[i].src, phase |-> "html"])
    /\ docs' = [docs EXCEPT
                  ![d].tasks[i].st = "done",
                  ![d].tasks[i].outcome = "fallback",
                  ![d].tasks[i].variants = variants,
                  ![d].elems[i] = createStandardPicture(@, variants, config)]
    /\ UNCHANGED <<processedImages, cacheSets, pc, doneCalls, doneArg>>

\* processProgressiveImage: catch, when the transcoder of the fallback rejects too
ProgressiveRejected(d, i) ==
    /\ transcodes' = Append(transcodes, [path |-> docs[d].tasks[i].src, phase |-> "html"])
    /\ docs' = [docs EXCEPT ![d].tasks[i].st = "done", ![d].tasks[i].outcome = "rejected"]
    /\ UNCHANGED <<files, processedImages, cacheSets, generated, pc, doneCalls, doneArg>>

\* the continuation of processProgressiveImage for the result r of the
\* transcoder and the result p of generatePlaceholder
progressiveSettled(d, i, r, p) ==
    IF r.threw THEN ProgressiveRejected(d, i)
    ELSE IF p.threw THEN ProgressiveFallback(d, i, r.variants)
    ELSE ProgressiveResolved(d, i, r.variants, p.data)

\* the transcoder has settled for image i of document d
SettleImage(d, i) ==
    /\ pc = "awaiting"
    /\ \A e \in 1..Len(docs) : ~ReadyToSerialise(e)
    /\ docs[d].tasks[i].st = "inflight"
    /\ IF config.isProgressive
       THEN progressiveSettled(d, i,
                processImageToVariants(docs[d].tasks[i].buffer, docs[d].tasks[i].src,
                                       config, env.fails),
                generatePlaceholder(docs[d].tasks[i].src, docs[d].tasks[i].buffer,
                                    config.placeholder, env.fails))
       ELSE imageSettled(d, i, processImageToVariants(docs[d].tasks[i].buffer,
                                                      docs[d].tasks[i].src, config, env.fails))
    /\ UNCHANGED <<call, raised, config, env, disk, now, pass, htmlFiles, chunks, bgImages, bgIndex>>

\* processHtmlFile after its await: fileData.contents = Buffer.from($.html()).
\* It runs as a microtask, before any further transcoder settles.
SerialiseDoc(d) ==
    /\ pc = "awaiting"
    /\ ReadyToSerialise(d)
    /\ \A e \in 1..(d - 1) : ~ReadyToSerialise(e)
    /\ files' = PutFile(files, docs[d].file, Markup(docs[d].elems, config),
                        GetFile(files, docs[d].file).mtime)
    /\ docs' = [docs EXCEPT ![d].st = "serialised"]
    /\ UNCHANGED <<call, raised, config, env, disk, now, pc, pass, htmlFiles, chunks, processedImages,
                   bgImages, bgIndex, doneCalls, doneArg, transcodes, cacheSets, generated>>

\* an outer Promise.all that resolves when every processHtmlFile was called
AllDocsStarted == \A d \in 1..Len(docs) : docs[d].st # "unparsed"
\* await Promise.all(chunks.map(...)): every processHtmlFile has returned
AllDocsDone == \A d \in 1..Len(docs) : docs[d].st \in {"returned", "serialised"}

\* the outer Promise.all resolves; processUnusedImages to the end of findUnprocessedImages
HtmlDone ==
    /\ pc = "awaiting"
    /\ AllDocsDone
    /\ IF ~config.processUnusedImages
       THEN /\ pc' = "finishing"
            /\ UNCHANGED <<bgImages, bgIndex, doneCalls, doneArg, raised>>
       ELSE IF env.throws = "source"
       THEN /\ raised' = ErrorOf("source")
            /\ Catch(ErrorOf("source"))
            /\ UNCHANGED <<bgImages, bgIndex>>
       ELSE /\ bgImages' = findUnprocessedImages(files, disk, config,
                                                 processedImagePaths(processedImages))
            /\ bgIndex' = 1
            /\ pc' = IF Len(bgImages') = 0 THEN "finishing" ELSE "background"
            /\ UNCHANGED <<doneCalls, doneArg, raised>>
    /\ UNCHANGED <<call, config, env, files, disk, now, pass, htmlFiles, chunks, docs,
                   processedImages, transcodes, cacheSets, generated>>

\* the body of the loop when the variants of imageObj were generated
backgroundResolved(imageObj, variants, cacheKey) ==
    /\ files' = saveVariants(files, variants)
    /\ processedImages' = MapSet(processedImages, cacheKey, variants)
    /\ cacheSets' = Append(cacheSets, [key |-> cacheKey, phase |-> "background"])
    /\ generated' = generated \cup Outputs(variants, imageObj.path, "background")

\* the body of the loop for the result r of processBackgroundImageVariants
backgroundSettled(imageObj, r) ==
    IF r.threw
    THEN UNCHANGED <<files, processedImages, cacheSets, generated>>
    ELSE backgroundResolved(imageObj, r.variants,
                            imageObj.path \o <<sColon>> \o NumToString(now))

\* one iteration of the loop over allBackgroundImages
BgImage ==
    /\ pc = "background"
    /\ transcodes' = Append(transcodes, [path |-> bgImages[bgIndex].path,
                                         phase |-> "background"])
    /\ backgroundSettled(bgImages[bgIndex],
                         processBackgroundImageVariants(bgImages[bgIndex].buffer,
                                                        bgImages[bgIndex].path, config,
                                                        env.fails))
    /\ bgIndex' = bgIndex + 1
    /\ pc' = IF bgIndex = Len(bgImages) THEN "finishing" ELSE "background"
    /\ UNCHANGED <<call, raised, config, env, disk, now, pass, htmlFiles, chunks, docs, bgImages,
                   doneCalls, doneArg>>

\* the manifest when configured, and done()
Complete ==
    /\ pc = "finishing"
    /\ IF config.generateMetadata /\ metadataThrows(processedImages)
       THEN /\ raised' = ErrorOf("generateMetadata")
            /\ Catch(ErrorOf("generateMetadata"))
            /\ UNCHANGED <<files, generated>>
       ELSE IF config.generateMetadata
       THEN /\ files' = generateMetadata(processedImages, files, config)
            /\ generated' = generated \cup
                    {[path |-> PathJoin(config.outputDir, sManifest), origin |-> <<>>,
                      phase |-> "manifest"]}
            /\ Done
            /\ UNCHANGED raised
       ELSE /\ Done
            /\ UNCHANGED <<files, generated, raised>>
    /\ UNCHANGED <<call, config, env, disk, now, pass, htmlFiles, chunks, docs, processedImages,
                   bgImages, bgIndex, transcodes, cacheSets>>

\* the clock advances
Tick ==
    /\ pc \in {"starting", "awaiting", "background"}
    /\ now < MaxClock
    /\ now' = now + 1
    /\ UNCHANGED <<call, raised, config, env, files, disk, pc, pass, htmlFiles, chunks, docs,
                   processedImages, bgImages, bgIndex, doneCalls, doneArg, transcodes,
                   cacheSets, generated>>

Next ==
    \/ Invoke
    \/ ChunkHtmlFiles
    \/ StartDoc
    \/ StartImage
    \/ \E d \in 1..Len(docs) : \E i \in 1..Len(docs[d].tasks) : SettleImage(d, i)
    \/ \E d \in 1..Len(docs) : SerialiseDoc(d)
    \/ HtmlDone
    \/ BgImage
    \/ Complete
    \/ Tick

Spec == Init /\ [][Next]_vars

\* no step is enabled: the chunk loop spins, or the last invocation is over
Quiescent == pc = "hung" \/ (pc \in {"idle", "done"} /\ pass >= env.uses)

\* The event loop runs every callback that is ready, and time does not stop:
\* weak fairness of Next, with Quiescent for the states that enable no step.
FairSpec == Spec /\ WF_vars(Tick) /\ ([]<>Quiescent \/ []<><<Next>>_vars)

(***************************************************************************)
(* The functions of the plugin called on their own, as the unit tests call *)
(* them: the arguments are drawn in the initial state and one step makes   *)
(* the call and keeps what it returned.                                    *)
(***************************************************************************)

\* the plugin idle beside the call c
Called(c) ==
    /\ Idle(baseConfig, Host("none", {}, 0), <<>>, <<>>)
    /\ call = c

\* the variants the first processing of an image stored in the cache
cachedVariantsU == processImageToVariants(bytesU, pathU, baseConfig, {}).variants
cachedVariantsT == processImageToVariants(bytesT, pathT, baseConfig, {}).variants
\* the keys images/u.png:7 (the mtime of the file), images/t.jpg:1 and
\* images/t.jpg:2 (the clock, for a file without mtime)
keyU7 == pathU \o <<sColon>> \o NumToString(7)
keyT(t) == pathT \o <<sColon>> \o NumToString(t)
\* the caches a call of processImage meets
unitCaches ==
    {<<>>,
     <<[key |-> keyU7, value |-> cachedVariantsU]>>,
     <<[key |-> keyT(1), value |-> cachedVariantsT]>>,
     <<[key |-> keyT(1), value |-> cachedVariantsT],
       [key |-> keyU7, value |-> cachedVariantsU]>>,
     <<[key |-> keyT(2), value |-> <<>>]>>}

\* processImage({$, img, files, metalsmith, processedImages, ...})
InitProcessImage ==
    \E src \in {pathT, pathU, srcSlashT, srcMissing, srcHttps, srcSlashD, srcImages},
       cache \in unitCaches,
       t \in 1..MaxClock :
        Called([fn |-> "processImage", st |-> "called", el |-> Elem(src),
                files |-> Site(<<>>, siteImages), disk |-> copiedDisk, cache |-> cache,
                now |-> t])

\* what the call of processImage did before its first await
processImageReturn(c, r) ==
    [fn |-> "processImage", st |-> "returned", el |-> c.el, files |-> c.files,
     disk |-> c.disk, cache |-> c.cache, now |-> c.now,
     transcoderCalled |-> r.kind = "transcode",
     rewriterCalled |-> r.kind = "cached",
     rewriterArg |-> r.variants,
     filesAfter |-> r.files]

CallProcessImage ==
    /\ call.fn = "processImage"
    /\ call.st = "called"
    /\ call' = processImageReturn(call, processImageStart(call.el, call.files, call.disk,
                                                          call.cache, call.now))
    /\ UNCHANGED <<config, env, files, disk, now, pc, pass, htmlFiles, chunks, docs,
                   processedImages, bgImages, bgIndex, doneCalls, doneArg, raised,
                   transcodes, cacheSets, generated>>

\* the elements the rewriter is called for
rewriterElems ==
    {ElemWith(pathU, <<>>),
     ElemWith(pathU, <<[name |-> "alt", value |-> "Buildings"],
                       [name |-> "class", value |-> "responsive-img highlighted"],
                       [name |-> "id", value |-> "special-img"],
                       [name |-> "data-custom", value |-> "value"]>>),
     ElemWith(pathU, <<[name |-> "sizes", value |-> "50vw"],
                       [name |-> "alt", value |-> "Buildings"],
                       [name |-> "width", value |-> "10"]>>),
     ElemWith(pathU, <<[name |-> "alt", value |-> "Buildings"],
                       [name |-> "loading", value |-> "eager"]>>),
     ElemWith(pathU, <<[name |-> "loading", value |-> "lazy"],
                       [name |-> "id", value |-> "special-img"]>>)}
\* the format lists the rewriter is configured with
rewriterFormats ==
    {<<"webp", sOriginal>>, <<sOriginal, "webp">>, <<"avif", "webp">>, <<"webp", "jpeg">>}
\* a list in every order of production
Orders(list) == {[i \in 1..Len(list) |-> list[p[i]]] : p \in Permutations(1..Len(list))}

\* replacePictureElement($, $img, variants, config)
InitReplacePictureElement ==
    \E el \in rewriterElems, f \in rewriterFormats, l \in BOOLEAN, d \in BOOLEAN :
      \E variants \in Orders(processImageToVariants(bytesU, pathU,
                                [baseConfig EXCEPT !.formats = f], {}).variants) :
        Called([fn |-> "replacePictureElement", st |-> "called", el |-> el,
                variants |-> variants,
                cfg |-> [baseConfig EXCEPT !.formats = f, !.lazy = l,
                                           !.dimensionAttributes = d]])

CallReplacePictureElement ==
    /\ call.fn = "replacePictureElement"
    /\ call.st = "called"
    /\ call' = [fn |-> "replacePictureElement", st |-> "returned", el |-> call.el,
                variants |-> call.variants, cfg |-> call.cfg,
                out |-> replacePictureElement(call.el, call.variants, call.cfg)]
    /\ UNCHANGED <<config, env, files, disk, now, pc, pass, htmlFiles, chunks, docs,
                   processedImages, bgImages, bgIndex, doneCalls, doneArg, raised,
                   transcodes, cacheSets, generated>>

\* the pieces of an output pattern: tokens and text between them
Tok(kind) == [kind |-> kind, text |-> <<>>]
Txt(text) == [kind |-> "text", text |-> text]
patternPieces ==
    {<<Tok("filename"), Txt(<<"-">>), Tok("width"), Txt(<<"w", "-">>), Tok("hash"),
       Txt(<<".">>), Tok("format")>>,
     <<Tok("filename"), Txt(<<"_">>), Tok("width"), Txt(<<".">>), Tok("format")>>,
     <<Txt(<<"w">>), Tok("width"), Txt(<<"-">>), Tok("hash"), Txt(<<"-">>), Tok("filename"),
       Txt(<<".">>), Tok("format")>>,
     <<Tok("format"), Txt(<<"_">>), Tok("hash"), Tok("filename")>>,
     <<Tok("filename"), Txt(<<".">>), Tok("format")>>}
\* the token as it is written in the pattern
TokenText(piece) ==
    CASE piece.kind = "filename" -> tokFilename
      [] piece.kind = "width"    -> tokWidth
      [] piece.kind = "format"   -> tokFormat
      [] piece.kind = "hash"     -> tokHash
      [] OTHER                   -> piece.text
RECURSIVE PatternText(_)
\* config.outputPattern for the pieces
PatternText(pieces) ==
    IF Len(pieces) = 0 THEN <<>> ELSE TokenText(Head(pieces)) \o PatternText(Tail(pieces))

hashAbcd == <<"a","b","c","d","1","2","3","4">>

\* generateVariantPath(originalPath, width, format, hash, config); an absent
\* hash is the empty string after `hash || ''`
InitGenerateVariantPath ==
    \E pieces \in patternPieces, originalPath \in {pathT, pathU, pathS},
       width \in {100, 300}, format \in {sOriginal, "webp", "avif", "jpeg"},
       hash \in {<<>>, hashAbcd}, o \in {defaultOutputDir, outDir} :
        Called([fn |-> "generateVariantPath", st |-> "called", pieces |-> pieces,
                originalPath |-> originalPath, width |-> width, format |-> format,
                hash |-> hash,
                cfg |-> [baseConfig EXCEPT !.outputDir = o,
                                           !.outputPattern = PatternText(pieces)]])

CallGenerateVariantPath ==
    /\ call.fn = "generateVariantPath"
    /\ call.st = "called"
    /\ call' = [call EXCEPT !.st = "returned"] @@
               [out |-> generateVariantPath(call.originalPath, call.width, call.format,
                                            call.hash, call.cfg)]
    /\ UNCHANGED <<config, env, files, disk, now, pc, pass, htmlFiles, chunks, docs,
                   processedImages, bgImages, bgIndex, doneCalls, doneArg, raised,
                   transcodes, cacheSets, generated>>

\* the options buildConfig is called with
userOptions ==
    <<<<>>,
      [widths |-> <<>>, formats |-> <<>>],
      [placeholder |-> [width |-> 75, quality |-> 20]],
      [formatOptions |-> [avif |-> [quality |-> 50],
                          jpeg |-> [quality |-> 95, progressive |-> FALSE]]],
      [formatOptions |-> [webp |-> [quality |-> 90, lossless |-> TRUE]],
       lazy |-> FALSE, concurrency |-> 2],
      [formatOptions |-> [tiff |-> [quality |-> 70]], placeholder |-> [blur |-> 5],
       outputDir |-> outDir],
      [placeholder |-> [width |-> 100, quality |-> 30, blur |-> 10, sharpen |-> TRUE],
       generateMetadata |-> TRUE]>>

\* buildConfig(options), buildConfig(null), buildConfig(undefined)
InitBuildConfig ==
    \/ \E n \in 1..Len(userOptions) :
          Called([fn |-> "buildConfig", st |-> "called",
                  options |-> [kind |-> "object", ref |-> "options",
                               value |-> userOptions[n]]])
    \/ \E k \in {"null", "undefined"} :
          Called([fn |-> "buildConfig", st |-> "called",
                  options |-> [kind |-> k, ref |-> "none", value |-> <<>>]])

\* the call leaves the object of the user as it was: buildConfig assigns to
\* its parameter, never to a property of it
CallBuildConfig ==
    /\ call.fn = "buildConfig"
    /\ call.st = "called"
    /\ call' = [fn |-> "buildConfig", st |-> "returned", options |-> call.options,
                optionsAfter |-> call.options, out |-> buildConfig(call.options)]
    /\ UNCHANGED <<config, env, files, disk, now, pc, pass, htmlFiles, chunks, docs,
                   processedImages, bgImages, bgIndex, doneCalls, doneArg, raised,
                   transcodes, cacheSets, generated>>

\* processImageToVariants(buffer, originalPath, debug, config) for sources of
\* every format, WEBP among them, with and without a failing encoder
pathW == <<"i","m","a","g","e","s","/","w",".","w","e","b","p">>
bytesW == ImageBytes(9, "webp", 300, 150)
transcoderSources ==
    {<<pathT, bytesT>>, <<pathU, bytesU>>, <<pathW, bytesW>>, <<pathS, bytesS>>}
transcoderFormats ==
    {<<"webp", sOriginal>>, <<sOriginal>>, <<"avif", "webp", "jpeg">>, <<sOriginal, "png">>}
InitProcessImageToVariants ==
    \E src \in transcoderSources, w \in {<<>>, <<100, 300>>, <<300, 100, 500>>},
       f \in transcoderFormats, l \in BOOLEAN, x \in {{}, {<<100, "webp">>}} :
        Called([fn |-> "processImageToVariants", st |-> "called", buffer |-> src[2],
                originalPath |-> src[1], fails |-> x,
                cfg |-> [baseConfig EXCEPT !.widths = w, !.formats = f, !.skipLarger = l]])
CallProcessImageToVariants ==
    /\ call.fn = "processImageToVariants"
    /\ call.st = "called"
    /\ call' = [call EXCEPT !.st = "returned"] @@
               [out |-> processImageToVariants(call.buffer, call.originalPath, call.cfg,
                                               call.fails)]
    /\ UNCHANGED <<config, env, files, disk, now, pc, pass, htmlFiles, chunks, docs,
                   processedImages, bgImages, bgIndex, doneCalls, doneArg, raised,
                   transcodes, cacheSets, generated>>

UnitInit ==
    \/ InitProcessImage
    \/ InitReplacePictureElement
    \/ InitGenerateVariantPath
    \/ InitBuildConfig
    \/ InitProcessImageToVariants

UnitNext ==
    \/ CallProcessImage
    \/ CallReplacePictureElement
    \/ CallGenerateVariantPath
    \/ CallBuildConfig
    \/ CallProcessImageToVariants

UnitSpec == UnitInit /\ [][UnitNext]_vars

(***************************************************************************)
(* The claims                                                              *)
(***************************************************************************)

\* C1: for every invocation of the plugin function the completion callback is
\* eventually invoked, and it is invoked exactly once: no invocation has more
\* calls of done than one, and every invocation reaches its call of done.
C1_DoneEventuallyOnce ==
    /\ [](doneCalls <= pass)
    /\ \A k \in 1..MaxUses : (pass = k) ~> (pass = k /\ pc = "done" /\ doneCalls = k)

\* C2: when a host accessor throws, done is called with the very error thrown,
\* and in a build in which nothing is thrown to the top level done is called
\* without an error; done has then been called once per invocation.
C2_AccessorErrorSurfaces ==
    pc = "done" => (doneArg = raised /\ doneCalls = pass)

\* C2, reached: the source accessor threw in the unreferenced-image phase and
\* done received its error
C2_Witness ==
    /\ pc = "done"
    /\ raised = ErrorOf("source")
    /\ doneArg = ErrorOf("source")
    /\ Len(docs) > 0

\* C3: within one build every source image is transcoded at most once and its
\* cache entry is inserted exactly once, however often it is referenced
C3_TranscodedAtMostOnce ==
    /\ \A i, j \in 1..Len(transcodes) :
          transcodes[i].path = transcodes[j].path => i = j
    /\ \A i, j \in 1..Len(cacheSets) :
          Split(cacheSets[i].key, sColon)[1] = Split(cacheSets[j].key, sColon)[1] => i = j

\* the images of the documents of this invocation, as (document, image) pairs
Tasks == UNION {{<<d, i>> : i \in 1..Len(docs[d].tasks)} : d \in 1..Len(docs)}
TaskOf(t) == docs[t[1]].tasks[t[2]]
\* the element as the author wrote it, and as it stands now
Authored(t) == docs[t[1]].parsed[t[2]]
Current(t) == docs[t[1]].elems[t[2]]
\* the path a cache key was made of
PathOfKey(key) == Split(key, sColon)[1]
\* the path an src attribute names in the file set
PathOfSrc(src) == IF StartsWith(src, sSlash) THEN SliceFrom(src, 1) ELSE src

sHttpScheme == <<"h","t","t","p",":","/","/">>
sHttpsScheme == <<"h","t","t","p","s",":","/","/">>
sSlashSlash == <<"/","/">>
\* an element that names no local image: no src, an external URL or a data: URI
NeverCandidate(el) ==
    \/ ~el.hasSrc
    \/ StartsWith(el.src, sHttpScheme)
    \/ StartsWith(el.src, sHttpsScheme)
    \/ StartsWith(el.src, sSlashSlash)
    \/ StartsWith(el.src, sData)

\* some configured width is generated for an image of this width
SomeWidthQualifies(buffer) ==
    \E n \in 1..Len(config.widths) : ~config.skipLarger \/ config.widths[n] <= buffer.w

\* the failures of one image in the HTML phase: its source is in neither the
\* file set nor the build directory, the transcoder rejected (corrupt bytes), or
\* the transcoding failed completely (no variant of the widths it tried)
SourceUnreadable(t) ==
    /\ TaskOf(t).outcome = "skipped"
    /\ Len(Authored(t).src) > 0
    /\ ~NeverCandidate(Authored(t))
TranscodingFailed(t) ==
    \/ TaskOf(t).outcome = "rejected"
    \/ /\ TaskOf(t).outcome = "resolved"
       /\ Len(TaskOf(t).variants) = 0
       /\ SomeWidthQualifies(TaskOf(t).buffer)
FailedInHtml(t) == SourceUnreadable(t) \/ TranscodingFailed(t)
\* the failure of the k-th unreferenced image
FailedInBackground(k) ==
    \/ ~Decodes(bgImages[k].buffer)
    \/ processBackgroundImageVariants(bgImages[k].buffer, bgImages[k].path, config,
                                      env.fails).threw
    \/ Len(processBackgroundImageVariants(bgImages[k].buffer, bgImages[k].path, config,
                                          env.fails).variants) = 0

\* nothing was written and nothing was cached in the phase for the image at path
NothingAddedFor(path, phase) ==
    /\ \A g \in generated : ~(g.phase = phase /\ g.origin = path)
    /\ \A n \in 1..Len(cacheSets) :
          ~(cacheSets[n].phase = phase /\ PathOfKey(cacheSets[n].key) = path)

\* the image of task t was processed as it is processed alone
ProcessedAlone(t) ==
    /\ TaskOf(t).variants = processImageToVariants(TaskOf(t).buffer, TaskOf(t).src,
                                                   config, env.fails).variants
    /\ Current(t) = replacePictureElement(Authored(t), TaskOf(t).variants, config)
    /\ \A n \in 1..Len(TaskOf(t).variants) :
          /\ HasFile(files, TaskOf(t).variants[n].path)
          /\ GetFile(files, TaskOf(t).variants[n].path).contents = TaskOf(t).variants[n].buffer

\* C4: a failure confined to one image (source unreadable, corrupt bytes,
\* complete transcoding failure), in either phase, does not abort the build and
\* does not touch sibling work: done gets no error, the element of the failing
\* image is as authored, no variant file and no cache entry is added for it, and
\* every other image is processed exactly as it is processed alone.
C4_ImageFailureConfined ==
    (pc = "done" /\ env.throws = "none") =>
        /\ doneArg = NoError
        /\ \A t \in Tasks : FailedInHtml(t) =>
              /\ Current(t) = Authored(t)
              /\ NothingAddedFor(TaskOf(t).src, "html")
        /\ \A k \in 1..Len(bgImages) : FailedInBackground(k) =>
              NothingAddedFor(bgImages[k].path, "background")
        /\ \A t \in Tasks : (TaskOf(t).outcome = "resolved" /\ ~FailedInHtml(t)) =>
              ProcessedAlone(t)

\* C5: an element whose src is absent, an external URL (http://, https://, //)
\* or a data: URI is never a transcoding candidate: it stays as authored, no
\* entry of the file set and no cache key is made for it, and its src is the
\* originating path of no output.
C5_ExternalNeverCandidate ==
    \A t \in Tasks : (TaskOf(t).st # "new" /\ NeverCandidate(Authored(t))) =>
        /\ Current(t) = Authored(t)
        /\ TaskOf(t).key = <<>>
        /\ Authored(t).hasSrc =>
              /\ ~HasFile(files, Authored(t).src)
              /\ ~HasFile(files, PathOfSrc(Authored(t).src))
              /\ \A g \in generated :
                    g.origin \notin {Authored(t).src, PathOfSrc(Authored(t).src)}

\* the images of document d whose transcoding is in flight
InFlight(d) == {i \in 1..Len(docs[d].tasks) : docs[d].tasks[i].st = "inflight"}
\* the documents being processed
OpenDocs == {d \in 1..Len(docs) : docs[d].st = "open"}

\* C6: at every moment at most config.concurrency images of one document are in
\* flight and at most config.concurrency documents are being processed.
C6_ConcurrencyBounded ==
    config.concurrency >= 1 =>
        /\ \A d \in 1..Len(docs) : Cardinality(InFlight(d)) <= config.concurrency
        /\ Cardinality(OpenDocs) <= config.concurrency

\* C7: no file the plugin generated, in this invocation or in an earlier one, is
\* selected by the classifier of unreferenced images, and no output is made
\* from an output.
C7_GeneratedNeverSelected ==
    /\ \A k \in 1..Len(bgImages) : \A g \in generated : g.path # bgImages[k].path
    /\ \A g \in generated : \A h \in generated : g.origin # h.path

\* C8: an image processed in the HTML phase is not selected again for the
\* unreferenced-image phase of the same invocation, whether the candidates come
\* from the file set or from the scan of the file system.
C8_ProcessedNeverReselected ==
    \A t \in Tasks : TaskOf(t).outcome \in {"resolved", "cached"} =>
        \A k \in 1..Len(bgImages) : bgImages[k].buffer # TaskOf(t).buffer

\* C9: with skipLarger every variant the transcoder returns has a configured
\* width that is at most the width of the source; when no configured width
\* qualifies, or the list is empty, the transcoder resolves with the empty
\* list, no variant file is added and the element stays as authored.
C9_NoUpscaling ==
    config.skipLarger =>
        \A t \in Tasks : TaskOf(t).outcome \in {"resolved", "rejected"} =>
            /\ \A n \in 1..Len(TaskOf(t).variants) :
                  /\ \E m \in 1..Len(config.widths) :
                        config.widths[m] = TaskOf(t).variants[n].width
                  /\ TaskOf(t).variants[n].width <= TaskOf(t).buffer.w
            /\ (Decodes(TaskOf(t).buffer) /\ ~SomeWidthQualifies(TaskOf(t).buffer)) =>
                  /\ TaskOf(t).outcome = "resolved"
                  /\ TaskOf(t).variants = <<>>
                  /\ Current(t) = Authored(t)
                  /\ \A g \in generated : g.origin # TaskOf(t).src

\* C9, reached: of the widths 100, 300 and 500 a source 200 wide got the
\* variants of width 100 only, and beside it a source 50 wide got none
C9_Witness ==
    /\ config.skipLarger
    /\ config.widths = <<100, 300, 500>>
    /\ \E t \in Tasks :
          /\ TaskOf(t).outcome = "resolved"
          /\ TaskOf(t).buffer.w = 200
          /\ Len(TaskOf(t).variants) = 2
          /\ \A n \in 1..2 : TaskOf(t).variants[n].width = 100
    /\ \E t \in Tasks :
          /\ TaskOf(t).outcome = "resolved"
          /\ TaskOf(t).buffer.w = 50
          /\ TaskOf(t).variants = <<>>

\* the (width, format) pairs of the image of task t that encode
EncodedPairs(t) ==
    {q \in (1..Len(config.widths)) \X (1..Len(config.formats)) :
        /\ ~config.skipLarger \/ config.widths[q[1]] <= TaskOf(t).buffer.w
        /\ ~(config.formats[q[2]] = sOriginal /\ TaskOf(t).buffer.fmt = "webp")
        /\ <<config.widths[q[1]], config.formats[q[2]]>> \notin env.fails}
\* the format of the variant of a configured format
VariantFormat(t, format) == IF format = sOriginal THEN TaskOf(t).buffer.fmt ELSE format

\* C10: when the encoding of (width, format) pairs fails the transcoder does not
\* throw; it returns the variant of every pair that encoded, and as many
\* variants as pairs encoded.
C10_OnlyFailedPairOmitted ==
    \A t \in Tasks :
        (/\ TaskOf(t).outcome \in {"resolved", "rejected"}
         /\ Decodes(TaskOf(t).buffer)
         /\ \A f \in env.fails : f[2] # "resize") =>
            /\ TaskOf(t).outcome = "resolved"
            /\ Len(TaskOf(t).variants) = Cardinality(EncodedPairs(t))
            /\ \A q \in EncodedPairs(t) : \E n \in 1..Len(TaskOf(t).variants) :
                  /\ TaskOf(t).variants[n].width = config.widths[q[1]]
                  /\ TaskOf(t).variants[n].format = VariantFormat(t, config.formats[q[2]])

\* C10, reached: the codec failed on (100, webp) alone and the image has its
\* other variants, the one of width 100 in the source's format among them
C10_Witness ==
    /\ env.fails = {<<100, "webp">>}
    /\ \E t \in Tasks :
          /\ TaskOf(t).outcome = "resolved"
          /\ \E n \in 1..Len(TaskOf(t).variants) :
                /\ TaskOf(t).variants[n].width = 100
                /\ TaskOf(t).variants[n].format = TaskOf(t).buffer.fmt
          /\ \A n \in 1..Len(TaskOf(t).variants) :
                ~(TaskOf(t).variants[n].width = 100 /\ TaskOf(t).variants[n].format = "webp")
          /\ Len(TaskOf(t).variants) = Cardinality(EncodedPairs(t))
          /\ Len(TaskOf(t).variants) >= 3

\* the cache key of the image the element of a call of processImage names
CallKey ==
    PathOfSrc(call.el.src) \o <<sColon>>
        \o NumToString(IF GetFile(call.files, PathOfSrc(call.el.src)).mtime # 0
                       THEN GetFile(call.files, PathOfSrc(call.el.src)).mtime
                       ELSE call.now)
\* the cache of the call holds the key of the referenced image
CacheHoldsKey ==
    /\ call.fn = "processImage"
    /\ HasFile(call.files, PathOfSrc(call.el.src))
    /\ \E n \in 1..Len(call.cache) : call.cache[n].key = CallKey

\* C11: when the cache holds the key (path, mtime) of a referenced image at the
\* moment the reference is processed, the transcoder is not invoked, no entry
\* of the file set is written and the rewriter gets the variants the cache holds.
C11_CacheHitReusesVariants ==
    (CacheHoldsKey /\ call.st = "returned") =>
        /\ ~call.transcoderCalled
        /\ call.filesAfter = call.files
        /\ call.rewriterCalled
        /\ \E n \in 1..Len(call.cache) :
              call.cache[n].key = CallKey /\ call.rewriterArg = call.cache[n].value

\* C11, reached: processImage returned for images/u.png with the cache holding
\* images/u.png:7 and gave the rewriter the cached variants
C11_Witness ==
    /\ CacheHoldsKey
    /\ call.st = "returned"
    /\ call.el.src = pathU
    /\ call.rewriterCalled
    /\ call.rewriterArg = cachedVariantsU
    /\ Len(call.rewriterArg) > 0

\* the rewriter returned for a non-empty variant list
Rewritten ==
    /\ call.fn = "replacePictureElement"
    /\ call.st = "returned"
    /\ Len(call.variants) > 0
\* the <source> elements of the picture the rewriter made
Sources == call.out.picture.sources
\* the configured formats, 'original' aside, of which there are variants
ConfiguredTypes ==
    SelectSeq(call.cfg.formats,
              LAMBDA f : f # sOriginal /\ \E n \in 1..Len(call.variants) : call.variants[n].format = f)
\* the types of the sources up to the k-th
TypesTo(k) == [i \in 1..k |-> Sources[i].type]
\* the sizes every source must have
SizesWanted ==
    IF \E n \in 1..Len(call.el.attribs) : call.el.attribs[n].name = "sizes"
    THEN call.el.attribs[CHOOSE n \in 1..Len(call.el.attribs) :
                            call.el.attribs[n].name = "sizes"].value
    ELSE call.cfg.sizes

\* C12: for a non-empty variant list the <img> is replaced by exactly one
\* <picture>; its sources for the configured formats stand in the configured
\* order (followed at most by the source of the format 'original' stands for,
\* and 'original' is never a type); each srcset lists the variants of its
\* format in strictly ascending width; each sizes is the element's own sizes
\* if it has one and the configured default otherwise.
C12_SourcesInPreferenceOrder ==
    Rewritten =>
        /\ call.out.pictures = call.el.pictures + 1
        /\ \A i \in 1..Len(Sources) : Sources[i].type # sOriginal
        /\ \/ TypesTo(Len(Sources)) = ConfiguredTypes
           \/ /\ Len(Sources) > 0
              /\ TypesTo(Len(Sources) - 1) = ConfiguredTypes
              /\ Sources[Len(Sources)].type \notin {"avif", "webp"}
        /\ \A i \in 1..Len(Sources) :
              /\ \A k \in 1..(Len(Sources[i].srcset) - 1) :
                    Sources[i].srcset[k].width < Sources[i].srcset[k + 1].width
              /\ {Sources[i].srcset[k].path : k \in 1..Len(Sources[i].srcset)}
                   = {call.variants[n].path : n \in
                        {m \in 1..Len(call.variants) : call.variants[m].format = Sources[i].type}}
              /\ Sources[i].sizes = SizesWanted

\* C12, reached: variants produced widest first, two configured formats, an
\* element with its own sizes
C12_Witness ==
    /\ Rewritten
    /\ call.variants[1].width > call.variants[Len(call.variants)].width
    /\ Len(ConfiguredTypes) = 2
    /\ Len(Sources) = 2
    /\ Len(Sources[1].srcset) = 2
    /\ Sources[1].sizes = "50vw"

\* the fallback <img> of the picture the rewriter made
Fallback == call.out.picture.img
\* the attribute of the given name, of the original or of the fallback
Has(attribs, name) == \E n \in 1..Len(attribs) : attribs[n].name = name
ValueOf(attribs, name) == attribs[CHOOSE n \in 1..Len(attribs) : attribs[n].name = name].value
\* the fallback keeps src, alt and class, and carries every other attribute
\* of the original unchanged, the six handled ones aside
FallbackKeepsAttributes ==
    /\ Fallback.src = call.el.src
    /\ \A name \in {"alt", "class"} :
          Has(call.el.attribs, name) =>
              /\ Has(Fallback.attribs, name)
              /\ ValueOf(Fallback.attribs, name) = ValueOf(call.el.attribs, name)
    /\ ~Has(call.el.attribs, "class") => ~Has(Fallback.attribs, "class")
    /\ \A n \in 1..Len(call.el.attribs) :
          call.el.attribs[n].name \notin {"src", "alt", "class", "width", "height", "sizes"} =>
              /\ Has(Fallback.attribs, call.el.attribs[n].name)
              /\ ValueOf(Fallback.attribs, call.el.attribs[n].name) = call.el.attribs[n].value
    /\ \A n \in 1..Len(Fallback.attribs) :
          \/ Fallback.attribs[n].name \in {"alt", "class", "loading"}
          \/ Has(call.el.attribs, Fallback.attribs[n].name)
    /\ \A n, m \in 1..Len(Fallback.attribs) :
          Fallback.attribs[n].name = Fallback.attribs[m].name => n = m
\* width and height are those of the widest variant, or absent
FallbackDimensions ==
    IF call.cfg.dimensionAttributes
    THEN /\ \A n \in 1..Len(call.variants) : call.variants[n].width <= call.out.picture.width
         /\ \E n \in 1..Len(call.variants) :
               /\ call.variants[n].width = call.out.picture.width
               /\ call.variants[n].height = call.out.picture.height
    ELSE call.out.picture.width = 0 /\ call.out.picture.height = 0
\* loading="lazy" stands on the fallback
LoadingLazy == Has(Fallback.attribs, "loading") /\ ValueOf(Fallback.attribs, "loading") = "lazy"

\* C13, as stated: one fallback <img> with the src, alt and class of the
\* original and every unhandled attribute copied unchanged; loading="lazy"
\* if and only if config.lazy; width and height if and only if
\* config.dimensionAttributes, those of the widest variant.
C13_FallbackImage ==
    Rewritten =>
        /\ FallbackKeepsAttributes
        /\ LoadingLazy <=> call.cfg.lazy
        /\ FallbackDimensions

\* C13, amended: as above, but loading="lazy" is decided by config.lazy only
\* for an original without a loading attribute; a loading attribute of the
\* original is copied unchanged like every other unhandled attribute.
C13_FallbackImageAmended ==
    Rewritten =>
        /\ FallbackKeepsAttributes
        /\ ~Has(call.el.attribs, "loading") => (LoadingLazy <=> call.cfg.lazy)
        /\ FallbackDimensions

\* C13, reached: an original with id and data-custom, lazy loading and
\* dimension attributes on
C13_Witness ==
    /\ Rewritten
    /\ Has(call.el.attribs, "data-custom")
    /\ ~Has(call.el.attribs, "loading")
    /\ call.cfg.lazy
    /\ LoadingLazy
    /\ call.cfg.dimensionAttributes
    /\ call.out.picture.width = 300

\* the elements of the markup written back for document d
Written(d) == Parse(GetFile(files, docs[d].file).contents)
\* what stands in place of element i of document d once its task has settled
Settled(d, i) ==
    IF docs[d].tasks[i].outcome \in {"resolved", "cached"}
    THEN replacePictureElement(docs[d].parsed[i], docs[d].tasks[i].variants, config)
    ELSE IF docs[d].tasks[i].outcome = "wrapped"
    THEN createProgressiveWrapper(docs[d].parsed[i], docs[d].tasks[i].variants,
                generatePlaceholder(docs[d].tasks[i].src, docs[d].tasks[i].buffer,
                                    config.placeholder, env.fails).data)
    ELSE IF docs[d].tasks[i].outcome = "fallback"
    THEN createStandardPicture(docs[d].parsed[i], docs[d].tasks[i].variants, config)
    ELSE docs[d].parsed[i]

\* C14: a document is serialised only after every one of its image candidates
\* has settled, and in the serialised markup each replacement stands at the
\* position of the element it replaces, whatever the order of completion.
C14_SerialisedInDocumentOrder ==
    \A d \in 1..Len(docs) :
        docs[d].st = "serialised" =>
            /\ AllSettled(docs[d])
            /\ GetFile(files, docs[d].file).contents.kind = "text"
            /\ Len(Written(d)) = Len(docs[d].parsed)
            /\ \A i \in 1..Len(docs[d].parsed) : Written(d)[i] = Settled(d, i)

\* C14, reached: a serialised document of two images of which the second
\* was the first to complete, both replaced
C14_Witness ==
    \E d \in 1..Len(docs) :
        /\ docs[d].st = "serialised"
        /\ Len(docs[d].parsed) = 2
        /\ Written(d)[1].pictures = 1
        /\ Written(d)[2].pictures = 1
        /\ docs[d].parsed[1].src # docs[d].parsed[2].src
        /\ Len(cacheSets) > 0
        /\ cacheSets[1].key = docs[d].tasks[2].key

\* <outputDir>/<stem>-<width>w.<format>: the extension is the one of the source
\* file for 'original' and the format otherwise
BackgroundPathWanted(originalPath, width, format) ==
    PathJoin(config.outputDir,
             PathName(originalPath) \o <<"-">> \o NumToString(width) \o <<"w", ".">>
                 \o (IF format = sOriginal THEN SliceFrom(PathExt(originalPath), 1)
                     ELSE FormatChars(format)))
\* the paths the background pass wrote for the image at the given path
BackgroundPathsOf(originalPath) ==
    {g.path : g \in {h \in generated : h.phase = "background" /\ h.origin = originalPath}}
\* the unreferenced images the loop has been through, decodable ones
BackgroundDone ==
    {k \in 1..Len(bgImages) : k < bgIndex /\ Decodes(bgImages[k].buffer)}

\* C15: for an unreferenced image of width W the background pass writes, for
\* each configured format, the two files <outputDir>/<stem>-<W>w.<format> and
\* <outputDir>/<stem>-<round(W/2)>w.<format>, without hash, and no others; for
\* 'original' the extension is the one of the source file.
C15_BackgroundVariantNames ==
    env.fails = {} =>
        \A k \in BackgroundDone :
            /\ BackgroundPathsOf(bgImages[k].path)
                 = {BackgroundPathWanted(bgImages[k].path, w, config.formats[f]) :
                      w \in {bgImages[k].buffer.w, RoundHalf(bgImages[k].buffer.w)},
                      f \in 1..Len(config.formats)}
            /\ \A q \in BackgroundPathsOf(bgImages[k].path) : HasFile(files, q)

\* the raster images of the file set that the HTML phase of this invocation
\* did not process and that the plugin did not generate
Unreferenced ==
    {n \in 1..Len(files) :
        /\ Decodes(files[n].contents)
        /\ \A g \in generated : g.path # files[n].path
        /\ \A c \in 1..Len(cacheSets) :
              cacheSets[c].phase = "html" => PathOfKey(cacheSets[c].key) # files[n].path}
\* the background pass made variants of the image at the given path (the scan
\* of the disk names an image by its path below the scanned directory)
HasBackgroundVariants(originalPath) ==
    \E g \in generated :
        /\ g.phase = "background"
        /\ PathBase(g.origin) = PathBase(originalPath)
        /\ HasFile(files, g.path)
\* an invocation has completed without error and without failing encodings
CompletedCleanly ==
    /\ pc = "done"
    /\ pass > 0
    /\ doneArg = NoError
    /\ env.fails = {}

\* C16: processUnusedImages alone controls the unreferenced-image phase: when
\* it is true, every raster image of the file set that the HTML phase did not
\* process and that is not generated has background variants once the build
\* completes, whatever the number of HTML documents; when it is false, no
\* background variant is ever added.
C16_UnusedImagesFlagAlone ==
    /\ ~config.processUnusedImages => \A g \in generated : g.phase # "background"
    /\ (config.processUnusedImages /\ CompletedCleanly) =>
          \A n \in Unreferenced : HasBackgroundVariants(files[n].path)

\* <outputDir>/responsive-images-manifest.json
ManifestPath == PathJoin(config.outputDir, sManifest)
\* the variants a cache value holds, in standard and in progressive mode
VariantsHeld(value) ==
    IF Len(value) = 1 /\ "placeholderData" \in DOMAIN value[1] THEN value[1].variants
    ELSE value
\* the {path, width, height, format, size} projection of a list of variants
Projection(variants) ==
    [i \in 1..Len(variants) |->
        [path |-> variants[i].path, width |-> variants[i].width,
         height |-> variants[i].height, format |-> variants[i].format,
         size |-> IF "size" \in DOMAIN variants[i] THEN variants[i].size ELSE 0]]
\* the manifest lists exactly the processed source paths, each with the
\* projection of its variants
ManifestOf(body) ==
    /\ \A k \in 1..Len(processedImages) :
          \E n \in 1..Len(body) :
              /\ body[n].key = PathOfKey(processedImages[k].key)
              /\ \E j \in 1..Len(processedImages) :
                    /\ PathOfKey(processedImages[j].key) = body[n].key
                    /\ body[n].value = Projection(VariantsHeld(processedImages[j].value))
    /\ \A n \in 1..Len(body) :
          /\ \E k \in 1..Len(processedImages) : PathOfKey(processedImages[k].key) = body[n].key
          /\ \A m \in 1..Len(body) : body[m].key = body[n].key => m = n

\* C17: with generateMetadata enabled a completed build has called done
\* without error and the file set holds exactly one manifest, at
\* <outputDir>/responsive-images-manifest.json, an object with one key per
\* processed source path whose value is the projection of the variants of
\* that image, in standard and in progressive mode; empty for an empty cache.
C17_ManifestWritten ==
    (pc = "done" /\ pass > 0 /\ env.throws = "none" /\ config.generateMetadata) =>
        /\ doneArg = NoError
        /\ Cardinality({n \in 1..Len(files) : files[n].path = ManifestPath}) = 1
        /\ GetFile(files, ManifestPath).contents.kind = "text"
        /\ ManifestOf(GetFile(files, ManifestPath).contents.body)

\* the element is a wrapper with an aspect ratio, one placeholder image with
\* a src and one high-resolution image with an empty src and a data-source
IsProgressiveWrapper(el) ==
    /\ el.wrappers = 1
    /\ el.pictures = 0
    /\ el.wrapper.aspectRatio[1] > 0
    /\ el.wrapper.aspectRatio[2] > 0
    /\ Len(el.wrapper.lowRes) = 1
    /\ Len(el.wrapper.lowRes[1].src) > 0
    /\ Len(el.wrapper.highRes) = 1
    /\ Len(el.wrapper.highRes[1].src) = 0
    /\ Len(el.wrapper.highRes[1].dataSource) > 0

\* C20: in progressive mode every image that is transcoded successfully stands
\* replaced by a wrapper with an aspect-ratio style, one placeholder image with
\* a non-empty src and one high-resolution image with an empty src and a
\* data-source; when the placeholder fails the image stands replaced by the
\* <picture> of the standard output.
C20_ProgressiveWrapperOrPicture ==
    config.isProgressive =>
        \A t \in Tasks :
            /\ (TaskOf(t).outcome = "wrapped" /\ Len(TaskOf(t).variants) > 0) =>
                  IsProgressiveWrapper(Current(t))
            /\ (TaskOf(t).outcome = "fallback" /\ Len(TaskOf(t).variants) > 0) =>
                  (Current(t).pictures = 1 /\ Current(t).wrappers = 0)

\* what stands for a piece of the pattern in the name of the variant
PieceValue(piece) ==
    CASE piece.kind = "filename" -> PathName(call.originalPath)
      [] piece.kind = "width"    -> NumToString(call.width)
      [] piece.kind = "format"   ->
            IF call.format = sOriginal THEN SliceFrom(PathExt(call.originalPath), 1)
            ELSE FormatChars(call.format)
      [] piece.kind = "hash"     -> call.hash
      [] OTHER                   -> piece.text
RECURSIVE NameWanted(_)
NameWanted(pieces) ==
    IF Len(pieces) = 0 THEN <<>> ELSE PieceValue(Head(pieces)) \o NameWanted(Tail(pieces))

Built == call.fn = "buildConfig" /\ call.st = "returned"
\* the user gave the field, the nested group, the leaf of the group, the leaf
\* of the format
Gave(field) == call.options.kind = "object" /\ field \in DOMAIN call.options.value
GaveLeaf(group, leaf) == Gave(group) /\ leaf \in DOMAIN call.options.value[group]
GaveFormat(format) == Gave("formatOptions") /\ format \in DOMAIN call.options.value.formatOptions
GaveFormatLeaf(format, leaf) ==
    GaveFormat(format) /\ leaf \in DOMAIN call.options.value.formatOptions[format]
\* the leaves of a format in the defaults
DefaultLeaves(format) ==
    IF format \in DOMAIN defaults.formatOptions THEN DOMAIN defaults.formatOptions[format]
    ELSE {}

\* C18: buildConfig merges formatOptions and placeholder field by field (a
\* default leaf the user did not give is retained, a leaf the user gave takes
\* the user's value, a group the user did not mention keeps its defaults);
\* every other field is the user's when given and the default otherwise; null
\* and undefined give the defaults; the user's object is left as it was and is
\* not the object returned.
C18_ConfigMergedFieldByField ==
    Built =>
        /\ call.optionsAfter = call.options
        /\ call.out.ref # call.options.ref
        /\ call.options.kind # "object" => call.out.value = defaults
        /\ \A field \in DOMAIN call.out.value \ {"formatOptions", "placeholder"} :
              call.out.value[field] = IF Gave(field) THEN call.options.value[field]
                                      ELSE defaults[field]
        /\ \A field \in DOMAIN defaults : field \in DOMAIN call.out.value
        /\ \A leaf \in DOMAIN call.out.value.placeholder :
              call.out.value.placeholder[leaf] =
                  IF GaveLeaf("placeholder", leaf) THEN call.options.value.placeholder[leaf]
                  ELSE defaults.placeholder[leaf]
        /\ \A leaf \in DOMAIN defaults.placeholder : leaf \in DOMAIN call.out.value.placeholder
        /\ \A format \in DOMAIN defaults.formatOptions :
              format \in DOMAIN call.out.value.formatOptions
        /\ \A format \in DOMAIN call.out.value.formatOptions :
              /\ \A leaf \in DefaultLeaves(format) :
                    leaf \in DOMAIN call.out.value.formatOptions[format]
              /\ \A leaf \in DOMAIN call.out.value.formatOptions[format] :
                    call.out.value.formatOptions[format][leaf] =
                        IF GaveFormatLeaf(format, leaf)
                        THEN call.options.value.formatOptions[format][leaf]
                        ELSE defaults.formatOptions[format][leaf]

\* C18, reached: the user gave the quality of avif and both leaves of jpeg;
\* the speed of avif and the whole of webp are the defaults
C18_Witness ==
    /\ Built
    /\ GaveFormatLeaf("avif", "quality")
    /\ ~GaveFormatLeaf("avif", "speed")
    /\ ~GaveFormat("webp")
    /\ call.out.value.formatOptions.avif = [quality |-> 50, speed |-> 5]
    /\ call.out.value.formatOptions.jpeg = [quality |-> 95, progressive |-> FALSE]
    /\ call.out.value.formatOptions.webp = [quality |-> 80, lossless |-> FALSE]
    /\ call.out.value.placeholder = [width |-> 50, quality |-> 30, blur |-> 10]


(***************************************************************************)
(* The fallback to the build directory                                     *)
(***************************************************************************)

\* the call of processImage is for a candidate whose normalised path is not
\* a key of the files object
CallSrc == IF StartsWith(call.el.src, sSlash) THEN SliceFrom(call.el.src, 1) ELSE call.el.src
CallAbsent ==
    /\ call.fn = "processImage"
    /\ call.st = "returned"
    /\ call.el.hasSrc
    /\ Len(call.el.src) > 0
    /\ ~StartsWith(call.el.src, sHttp)
    /\ ~StartsWith(call.el.src, sData)
    /\ ~HasFile(call.files, CallSrc)
\* the file of the build directory that a read returns for the call
CallReadable ==
    /\ DiskHas(call.disk, PathJoin(destinationDir, CallSrc))
    /\ DiskGet(call.disk, PathJoin(destinationDir, CallSrc)).contents.kind # "dir"
CallOnDisk == DiskGet(call.disk, PathJoin(destinationDir, CallSrc))
\* the files object with the file of the build directory added
CallBackfilled ==
    call.files \o <<File(CallSrc, CallOnDisk.contents, CallOnDisk.mtime)>>
\* the call did what processImage does for a files object that already holds
\* the image: the same transcoder call or the same rewriter call
CallAsForHeld ==
    call = processImageReturn(call, processImageStart(call.el, CallBackfilled, call.disk,
                                                      call.cache, call.now))

\* C21: when the normalised path of a candidate is absent from the file set,
\* a file found in the build directory is added to the file set with its
\* contents and modification time and the image is processed like an image
\* of the file set; when it is not there or reading throws, the call returns
\* with the file set unchanged and neither transcoder nor rewriter called
\* (the cache is written only after the transcoder).
C21_BuildDirectoryFallback ==
    CallAbsent =>
        IF CallReadable
        THEN /\ call.filesAfter = CallBackfilled
             /\ CallOnDisk.mtime # 0
             /\ CallAsForHeld
             /\ call.transcoderCalled \/ call.rewriterCalled
        ELSE /\ call.filesAfter = call.files
             /\ ~call.transcoderCalled
             /\ ~call.rewriterCalled
C21_Witness ==
    /\ CallAbsent
    /\ CallReadable
    /\ call.transcoderCalled
C21_WitnessThrows ==
    /\ CallAbsent
    /\ ~CallReadable
    /\ DirExists(call.disk, PathJoin(destinationDir, CallSrc))


(***************************************************************************)
(* The phases of a build                                                   *)
(***************************************************************************)

\* the phase the build is in: 1 the images the documents refer to, 2 the
\* images nothing refers to, 3 the manifest, 4 done was called
PhaseOf(p) ==
    CASE p = "idle" -> 0
      [] p \in {"chunking", "starting", "awaiting", "hung"} -> 1
      [] p = "background" -> 2
      [] p = "finishing" -> 3
      [] p = "done" -> 4
\* every document is written back or was left without images, and no image
\* task is in flight
DocumentsFinished ==
    /\ \A d \in 1..Len(docs) : docs[d].st \in {"returned", "serialised"}
    /\ \A d \in 1..Len(docs) : \A i \in 1..Len(docs[d].tasks) : docs[d].tasks[i].st = "done"
\* the loop over the unreferenced images has run to its end, or was not entered
BackgroundFinished == bgIndex = 0 \/ bgIndex > Len(bgImages)
\* the step writes the manifest
WritesManifest ==
    /\ pc = "finishing"
    /\ pc' = "done"
    /\ HasFile(files', PathJoin(config.outputDir, sManifest))
    /\ files' # files \/ generated' # generated
\* the step transcodes an unreferenced image
TranscodesUnreferenced ==
    /\ Len(transcodes') > Len(transcodes)
    /\ transcodes'[Len(transcodes')].phase = "background"
\* the step starts or settles the processing of a referenced image
TouchesDocuments == docs' # docs /\ pass' = pass

\* C22: within one invocation the phases follow each other in the order
\* referenced images, unreferenced images, manifest, done and none is
\* entered again; the unreferenced images are classified and transcoded only
\* when every document has finished, the manifest is written only when the
\* loop over the unreferenced images has ended and holds the cache of both
\* phases, and done is called only then.
C22_PhasesInOrder ==
    [][/\ pass' = pass => PhaseOf(pc') >= PhaseOf(pc)
       /\ TouchesDocuments => PhaseOf(pc) = 1
       /\ (PhaseOf(pc') = 2 /\ PhaseOf(pc) # 2) => (PhaseOf(pc) = 1 /\ DocumentsFinished)
       /\ TranscodesUnreferenced => (PhaseOf(pc) = 2 /\ DocumentsFinished)
       /\ (PhaseOf(pc') = 3 /\ PhaseOf(pc) # 3) =>
              (PhaseOf(pc) \in {1, 2} /\ DocumentsFinished /\ BackgroundFinished')
       /\ WritesManifest =>
              /\ DocumentsFinished
              /\ BackgroundFinished
              /\ \A k \in 1..Len(cacheSets) : MapHas(processedImages, cacheSets[k].key)
              /\ GetFile(files', PathJoin(config.outputDir, sManifest)).contents
                     = TextBytes(2, metadataObj(processedImages, 1, <<>>))
       /\ (doneCalls' # doneCalls /\ pass' = pass) =>
              (DocumentsFinished /\ BackgroundFinished /\ pc' = "done")
      ]_vars
C22_Witness ==
    /\ pc = "done"
    /\ doneArg = NoError
    /\ \E k \in 1..Len(transcodes) : transcodes[k].phase = "html"
    /\ \E k \in 1..Len(cacheSets) : cacheSets[k].phase = "html"
    /\ \E k \in 1..Len(cacheSets) : cacheSets[k].phase = "background"
    /\ \E g \in generated : g.phase = "manifest"


(***************************************************************************)
(* The paths of the variants                                               *)
(***************************************************************************)

\* the paths under which variants were written
VariantPaths == {g.path : g \in {h \in generated : h.phase # "manifest"}}
\* the step leaves the bytes of every variant written so far as they are
KeepsVariants ==
    \A k \in VariantPaths :
        HasFile(files', k) /\ GetFile(files', k).contents = GetFile(files, k).contents

\* C23: no path of the file set receives variants of two different source
\* images, widths or formats: a variant that was written is never replaced
\* by other bytes, under the naming of the HTML phase and under the naming
\* without hash of the unreferenced images.
C23_OutputPathsUnique == [][KeepsVariants]_vars


(***************************************************************************)
(* The variants of the transcoder                                          *)
(***************************************************************************)

\* the call of processImageToVariants has returned and no encoder failed
Transcoded ==
    /\ call.fn = "processImageToVariants"
    /\ call.st = "returned"
    /\ call.fails = {}
\* the widths of the configuration the source is wide enough for
EligibleWidths ==
    IF call.cfg.skipLarger
    THEN SelectSeq(call.cfg.widths, LAMBDA w : w <= call.buffer.w)
    ELSE call.cfg.widths
\* the configured formats a variant is due for
DueFormats ==
    SelectSeq(call.cfg.formats, LAMBDA f : ~(f = sOriginal /\ call.buffer.fmt = "webp"))
\* the pairs (width, format) in the order of the configuration
DuePairs ==
    [k \in 1..(Len(EligibleWidths) * Len(DueFormats)) |->
        <<EligibleWidths[((k - 1) \div Len(DueFormats)) + 1],
          DueFormats[((k - 1) % Len(DueFormats)) + 1]>>]
\* the variant is the one of the pair
VariantOfPair(v, pair) ==
    /\ v.width = pair[1]
    /\ v.format = (IF pair[2] = sOriginal THEN call.buffer.fmt ELSE pair[2])
    /\ v.path = generateVariantPath(call.originalPath, pair[1], pair[2],
                                    GenerateHash(call.buffer), call.cfg)

\* C24: when no encoder fails the transcoder returns one variant for each
\* pair of an eligible width and a configured format, none for 'original'
\* when the source decodes as WEBP, and each variant records the requested
\* width, the concrete format and the path computed for its width and format.
C24_OneVariantPerPair ==
    Transcoded =>
        /\ ~call.out.threw
        /\ Len(call.out.variants) = Len(DuePairs)
        /\ \A k \in 1..Len(DuePairs) : VariantOfPair(call.out.variants[k], DuePairs[k])
C24_Witness ==
    /\ Transcoded
    /\ call.buffer.fmt = "webp"
    /\ Len(call.cfg.formats) = 2
    /\ Len(call.out.variants) = 2
C24_WitnessFour ==
    /\ Transcoded
    /\ call.buffer.fmt = "png"
    /\ call.cfg.formats = <<"webp", sOriginal>>
    /\ Len(call.out.variants) = 4


(***************************************************************************)
(* The paths a document refers to                                          *)
(***************************************************************************)

\* the paths in the srcset attributes of a list of <source> elements
SrcsetPaths(sources) ==
    UNION {{sources[k].srcset[j].path : j \in 1..Len(sources[k].srcset)} :
              k \in 1..Len(sources)}
\* the paths in the srcset of the <img> of a picture, when it has one
ImgSrcsetPaths(img) ==
    IF "srcset" \in DOMAIN img
    THEN {img.srcset[j].path : j \in 1..Len(img.srcset)}
    ELSE {}
\* the paths of the placeholder src and the data-source of a wrapper
WrapperPaths(wrapper) ==
    {SliceFrom(wrapper.lowRes[k].src, 1) : k \in 1..Len(wrapper.lowRes)}
        \cup {SliceFrom(wrapper.highRes[k].dataSource, 1) : k \in 1..Len(wrapper.highRes)}
\* the paths of generated files the markup of an element refers to
ReferencedPaths(el) ==
    (IF el.pictures > 0
     THEN SrcsetPaths(el.picture.sources) \cup ImgSrcsetPaths(el.picture.img)
     ELSE {})
    \cup (IF el.wrappers > 0 THEN WrapperPaths(el.wrapper) ELSE {})
\* the bytes the transcoder and the placeholder generator make of the source
\* of a task under the path p
BytesFor(task, p) ==
    {processImageToVariants(task.buffer, task.src, config, env.fails).variants[k].buffer :
        k \in {j \in 1..Len(processImageToVariants(task.buffer, task.src, config,
                                                    env.fails).variants) :
                  processImageToVariants(task.buffer, task.src, config,
                                         env.fails).variants[j].path = p}}
    \cup (IF generatePlaceholder(task.src, task.buffer, config.placeholder,
                                 env.fails).data.path = p
          THEN {generatePlaceholder(task.src, task.buffer, config.placeholder,
                                    env.fails).data.contents}
          ELSE {})
\* the step writes document d back
Serialises(d) == docs[d].st # "serialised" /\ docs'[d].st = "serialised"

\* C25: the variants of an image are in the file set before the cache entry
\* and the rewritten markup exist; hence when a document is serialised every
\* path in its srcset, data-source and placeholder src attributes is a key
\* of the file set and holds the bytes made of the image the element names.
C25_ReferencedPathsHoldVariants ==
    [][\A d \in 1..Len(docs) :
          (d \in 1..Len(docs') /\ Serialises(d)) =>
              \A i \in 1..Len(docs[d].elems) :
                  \A p \in ReferencedPaths(docs[d].elems[i]) :
                      /\ HasFile(files', p)
                      /\ GetFile(files', p).contents \in BytesFor(docs[d].tasks[i], p)
      ]_vars


(***************************************************************************)
(* The references processed one after the other                            *)
(***************************************************************************)

\* the reading of the clock the key of a task was made with
ReadingOf(task) ==
    IF \E t \in 1..MaxClock : EndsWith(task.key, <<sColon>> \o NumToString(t))
    THEN CHOOSE t \in 1..MaxClock : EndsWith(task.key, <<sColon>> \o NumToString(t))
    ELSE 1
\* a run in which a reference is processed to its end before the next one
\* starts: s holds the file set, the cache and the elements of the documents
\* so far; r is what processImage finds for image i of document d, v what
\* the transcoder returns and p what the placeholder generator returns
SequentialStandard(s, d, i, r, v) ==
    IF v.threw THEN s
    ELSE [files |-> saveVariants(r.files, v.variants),
          cache |-> MapSet(s.cache, r.key, v.variants),
          elems |-> [s.elems EXCEPT ![d][i] = replacePictureElement(@, v.variants, config)]]
SequentialProgressive(s, d, i, r, v, p) ==
    IF v.threw THEN s
    ELSE IF p.threw
    THEN [files |-> saveVariants(r.files, v.variants),
          cache |-> s.cache,
          elems |-> [s.elems EXCEPT ![d][i] = createStandardPicture(@, v.variants, config)]]
    ELSE [files |-> PutFile(saveVariants(r.files, v.variants), p.data.path,
                            p.data.contents, 0),
          cache |-> MapSet(s.cache, r.key, progressiveEntry(v.variants, p.data)),
          elems |-> [s.elems EXCEPT
                       ![d][i] = createProgressiveWrapper(@, v.variants, p.data)]]
SequentialReference(s, d, i, r) ==
    IF r.kind = "skip" THEN s
    ELSE IF r.kind = "cached"
    THEN [s EXCEPT !.files = r.files,
                   !.elems[d][i] = rewriteCached(@, r.variants, config)]
    ELSE IF config.isProgressive
    THEN SequentialProgressive(s, d, i, r,
             processImageToVariants(r.buffer, r.src, config, env.fails),
             generatePlaceholder(r.src, r.buffer, config.placeholder, env.fails))
    ELSE SequentialStandard(s, d, i, r,
             processImageToVariants(r.buffer, r.src, config, env.fails))
RECURSIVE SequentialRun(_, _, _)
SequentialRun(s, d, i) ==
    IF d > Len(docs) THEN s
    ELSE IF i > Len(docs[d].parsed) THEN SequentialRun(s, d + 1, 1)
    ELSE SequentialRun(
             SequentialReference(s, d, i,
                 processImageStart(docs[d].parsed[i], s.files, disk, s.cache,
                                   ReadingOf(docs[d].tasks[i]))),
             d, i + 1)
\* the run from the file set of the build, an empty cache and the elements
\* as the documents were parsed
Sequential ==
    SequentialRun([files |-> files, cache |-> <<>>,
                   elems |-> [d \in 1..Len(docs) |-> docs[d].parsed]], 1, 1)
\* a file set and a cache without the order of their entries
EntriesOf(fs) == {fs[k] : k \in 1..Len(fs)}
KeysOf(cache) == {cache[k].key : k \in 1..Len(cache)}
\* the documents of the invocation are all processed, nothing else has run
DocumentsProcessed == pc = "awaiting" /\ AllDocsDone
\* some image is referenced twice and both references were transcoded
TranscodedTwice ==
    \E j, k \in 1..Len(transcodes) :
        j # k /\ transcodes[j].path = transcodes[k].path /\ transcodes[j].phase = "html"
        /\ transcodes[k].phase = "html"

\* C26: when the documents are processed, the file set, the keys of the
\* cache and the markup of every document are those of the run in which the
\* references are processed one after the other (a second reference to an
\* image then hits the cache): the order in which the image tasks settle
\* does not show in the output.
C26_OutputIndependentOfInterleaving ==
    DocumentsProcessed =>
        /\ EntriesOf(files) = EntriesOf(Sequential.files)
        /\ KeysOf(processedImages) = KeysOf(Sequential.cache)
        /\ \A d \in 1..Len(docs) : docs[d].elems = Sequential.elems[d]


(***************************************************************************)
(* The chunk loops                                                         *)
(***************************************************************************)

\* the chunk loop of optimizeImages has been left
Chunked == pc \in {"starting", "awaiting", "background", "finishing"}

\* C27: for every configuration, a concurrency of 0 included, the chunk loop
\* ends and places every document in exactly one chunk.
C27_ChunkLoopsTerminate ==
    /\ pc # "hung"
    /\ Chunked => Flat(chunks) = htmlFiles


(***************************************************************************)
(* Where the plugin writes                                                 *)
(***************************************************************************)

\* the path lies under the directory dir (as path.join normalises it)
Under(p, dir) ==
    StartsWith(p, SubSeq(PathJoin(dir, <<"x">>), 1, Len(PathJoin(dir, <<"x">>)) - 1))
\* the keys of a file set
KeySet(fs) == {fs[k].path : k \in 1..Len(fs)}
\* the key holds a file of the build directory under its own path
Backfilled(fs, k) ==
    /\ DiskHas(disk, PathJoin(destinationDir, k))
    /\ GetFile(fs, k).contents = DiskGet(disk, PathJoin(destinationDir, k)).contents

\* C28: every entry the plugin adds to the file set is a generated file
\* under config.outputDir (variants of both phases, placeholders, manifest)
\* or a source image backfilled from the build directory under its own path.
C28_ArtifactsUnderOutputDir ==
    [][\A k \in KeySet(files') \ KeySet(files) :
          Under(k, config.outputDir) \/ Backfilled(files', k)]_vars


(***************************************************************************)
(* The unreferenced images selected                                        *)
(***************************************************************************)

\* two selected entries are one image: the same bytes, one found by the scan
\* of a directory under the path relative to it, the other under its key
SameSourceImage(x, y) ==
    /\ x.buffer = y.buffer
    /\ EndsWith(x.path, y.path) \/ EndsWith(y.path, x.path)

\* C29: in the unreferenced-image phase no source image is selected, and so
\* transcoded, more than once in a build, also when the scan of the disk and
\* the scan of the file set both find it.
C29_UnreferencedSelectedOnce ==
    \A j, k \in 1..Len(bgImages) :
        SameSourceImage(bgImages[j], bgImages[k]) => j = k


(***************************************************************************)
(* The types of the sources                                                *)
(***************************************************************************)

\* C30: the <picture> of replacePictureElement holds at most one <source>
\* of each type, whatever the configured formats are.
C30_OneSourcePerType ==
    Rewritten =>
        \A j, k \in 1..Len(Sources) : Sources[j].type = Sources[k].type => j = k

=============================================================================
